---- MODULE Spec2Model ----
(***************************************************************************)
(* A model of trakt-graph: the history normaliser (processTraktHistory),   *)
(* the statistics (calculateStreak, calculateDaysActive,                   *)
(* groupEntriesByDate) and the two renderers (generateSvg,                 *)
(* generateMultiYearSvg).                                                  *)
(*                                                                         *)
(* Time.  A JavaScript Date is modelled by its instant, a whole number of  *)
(* hours since 1970-01-01T00:00Z.  The local time zone of the process is   *)
(* the variable tz, a whole number of hours east of UTC.  A 'YYYY-MM-DD'   *)
(* string is modelled by the triple <<year, month, day>>; zero padded      *)
(* strings of four-digit years compare as these triples do.  null is <<>>. *)
(***************************************************************************)
EXTENDS Integers, Sequences, FiniteSets, TLC

VARIABLES
    tz,            \* local time zone of the process, hours east of UTC
    now,           \* the wall clock, an instant
    fontFiles,     \* which font files exist in FONTS_DIR
    embeddedFonts, \* the module-level font cache of getEmbeddedFonts
    history,       \* raw history items handed to processTraktHistory
    targetYear,    \* the targetYear argument of processTraktHistory
    processed,     \* what the last processTraktHistory call returned
    entries,       \* the entries handed to the statistics and the renderers
    options,       \* the options handed to the renderers
    stats,         \* what calculateStreak / calculateDaysActive returned
    svg,           \* what the last renderer call returned
    firstSvg,      \* what the first renderer call of this kind returned
    cli,           \* the command line parser's state
    color,         \* the arguments and results of the colour scheme calls
    net            \* one run of main(): its place, its values and the
                   \* answers of the network during the run

vars == <<tz, now, fontFiles, embeddedFonts, history, targetYear, processed,
          entries, options, stats, svg, firstSvg, cli, color, net>>

(***************************************************************************)
(* Bounds of the model.                                                    *)
(***************************************************************************)
MinYear == 2022
MaxYear == 2024
MaxEntries == 2
MaxStatEntries == 5
MaxHistory == 3
MaxTextLen == 1
MaxCount == 4
MinLayoutYear == 2021
MaxLayoutYear == 2029
MaxTitleLen == 150

Years == MinYear..MaxYear
LayoutYears == MinLayoutYear..MaxLayoutYear
TZOffsets == {-5, 0, 6}

(***************************************************************************)
(* The calendar: what Date.UTC, getUTCDay, getFullYear, getMonth, getDate  *)
(* compute.                                                                *)
(***************************************************************************)
HoursPerDay == 24

IsLeap(y) == (y % 4 = 0 /\ y % 100 /= 0) \/ y % 400 = 0

\* days from 1970-01-01 to January 1 of year y
DaysBeforeYear(y) ==
    365 * (y - 1970) + ((y - 1) \div 4 - 1969 \div 4)
        - ((y - 1) \div 100 - 1969 \div 100)
        + ((y - 1) \div 400 - 1969 \div 400)

\* days of the year before the 1-based month m (m = 13: the whole year)
DaysBeforeMonth(y, m) ==
    <<0, 31, 59, 90, 120, 151, 181, 212, 243, 273, 304, 334, 365>>[m]
        + (IF IsLeap(y) /\ m > 2 THEN 1 ELSE 0)

\* the day number of a calendar date (month 1-based)
DayNumber(y, m, d) == DaysBeforeYear(y) + DaysBeforeMonth(y, m) + d - 1

\* Date.UTC(year, monthIndex, day): month 0-based, the instant of 00:00Z
DateUTC(y, monthIndex, d) == HoursPerDay * DayNumber(y, monthIndex + 1, d)

\* the calendar date <<y, m, d>> of a day number
CivilFromDays(z) ==
    LET y == CHOOSE c \in (1970 + z \div 366)..(1971 + z \div 365) :
                 DaysBeforeYear(c) <= z /\ z < DaysBeforeYear(c + 1)
        doy == z - DaysBeforeYear(y)
        m == CHOOSE c \in 1..12 :
                 DaysBeforeMonth(y, c) <= doy /\ doy < DaysBeforeMonth(y, c + 1)
    IN <<y, m, doy - DaysBeforeMonth(y, m) + 1>>

CivilTable ==
    [z \in DaysBeforeYear(MinLayoutYear - 1)..DaysBeforeYear(MaxLayoutYear + 3) |->
        CivilFromDays(z)]

Civil(z) == CivilTable[z]

\* the UTC day number of an instant: floor(t / 1 day)
UTCDayOf(date) == date \div HoursPerDay

\* the local day number of an instant
LocalDayOf(date) == (date + tz) \div HoursPerDay

\* day of week of a day number, 0 = Sunday (1970-01-01 was a Thursday)
DayOfWeek(z) == (z + 4) % 7

getUTCDay(date) == DayOfWeek(UTCDayOf(date))
getDay(date) == DayOfWeek(LocalDayOf(date))
getFullYear(date) == Civil(LocalDayOf(date))[1]
getMonth(date) == Civil(LocalDayOf(date))[2] - 1
getDate(date) == Civil(LocalDayOf(date))[3]

\* new Date('YYYY-MM-DD'): a date-only ISO string is parsed as 00:00Z
ParseDateString(s) == DateUTC(s[1], s[2] - 1, s[3])

\* string comparison a <= b of two 'YYYY-MM-DD' strings
StrLE(a, b) ==
    \/ a[1] < b[1]
    \/ a[1] = b[1] /\ a[2] < b[2]
    \/ a[1] = b[1] /\ a[2] = b[2] /\ a[3] <= b[3]

null == <<>>

(***************************************************************************)
(* stats.js                                                                *)
(***************************************************************************)
getLocalDateString(date) == <<getFullYear(date), getMonth(date) + 1, getDate(date)>>

\* [...new Set(xs)]: the distinct elements in order of first occurrence
RECURSIVE SetOrder(_)
SetOrder(xs) ==
    IF xs = <<>> THEN <<>>
    ELSE LET init == SetOrder(SubSeq(xs, 1, Len(xs) - 1))
             last == xs[Len(xs)]
         IN IF \E i \in 1..Len(init) : init[i] = last THEN init
            ELSE Append(init, last)

\* Array.prototype.sort() on date strings: ascending string order
RECURSIVE InsertSorted(_, _)
InsertSorted(x, sorted) ==
    IF sorted = <<>> THEN <<x>>
    ELSE IF StrLE(x, Head(sorted)) THEN <<x>> \o sorted
    ELSE <<Head(sorted)>> \o InsertSorted(x, Tail(sorted))

RECURSIVE SortStrings(_)
SortStrings(xs) ==
    IF xs = <<>> THEN <<>> ELSE InsertSorted(Head(xs), SortStrings(Tail(xs)))

DateStrings(es) == [i \in 1..Len(es) |-> getLocalDateString(es[i].date)]

\* Math.round(num / den) for den > 0
RoundDiv(num, den) == (2 * num + den) \div (2 * den)

\* the iteration of the scan with a run as long as the longest one taking
\* its place
StreakStepLatestOnTie(uniqueDates, i, s) ==
    LET prevDate == ParseDateString(uniqueDates[i - 1])
        currDate == ParseDateString(uniqueDates[i])
        diffTime == currDate - prevDate
        diffDays == RoundDiv(diffTime, HoursPerDay)
    IN IF diffDays = 1
       THEN LET cur == s.currentStreak + 1
            IN IF cur >= s.maxStreak
               THEN [s EXCEPT !.currentStreak = cur, !.maxStreak = cur,
                              !.maxStart = s.currentStart,
                              !.maxEnd = uniqueDates[i]]
               ELSE [s EXCEPT !.currentStreak = cur]
       ELSE [s EXCEPT !.currentStreak = 1, !.currentStart = uniqueDates[i]]

\* one iteration of the scan of calculateStreak, at index i (1-based: i >= 2)
StreakStep(uniqueDates, i, s) ==
    LET prevDate == ParseDateString(uniqueDates[i - 1])
        currDate == ParseDateString(uniqueDates[i])
        diffTime == currDate - prevDate
        diffDays == RoundDiv(diffTime, HoursPerDay)
    IN IF diffDays = 1
       THEN LET cur == s.currentStreak + 1
            IN IF cur > s.maxStreak
               THEN [s EXCEPT !.currentStreak = cur, !.maxStreak = cur,
                              !.maxStart = s.currentStart,
                              !.maxEnd = uniqueDates[i]]
               ELSE [s EXCEPT !.currentStreak = cur]
       ELSE [s EXCEPT !.currentStreak = 1, !.currentStart = uniqueDates[i]]

RECURSIVE StreakScan(_, _, _)
StreakScan(uniqueDates, i, s) ==
    IF i > Len(uniqueDates) THEN s
    ELSE StreakScan(uniqueDates, i + 1, StreakStep(uniqueDates, i, s))

\* calculateStreak scanning the dates without removing the repeated ones
calculateStreakNoDedup(es) ==
    IF Len(es) = 0 THEN [length |-> 0, startDate |-> null, endDate |-> null]
    ELSE LET uniqueDates == SortStrings(DateStrings(es))
             s0 == [maxStreak |-> 1, currentStreak |-> 1,
                    maxStart |-> uniqueDates[1], maxEnd |-> uniqueDates[1],
                    currentStart |-> uniqueDates[1]]
             s == StreakScan(uniqueDates, 2, s0)
         IN [length |-> s.maxStreak, startDate |-> s.maxStart,
             endDate |-> s.maxEnd]

\* calculateStreak without the two early returns for an empty list: the
\* scan starts at 1 with uniqueDates[0] undefined
calculateStreakNoEmptyGuard(es) ==
    [length |-> 1, startDate |-> null, endDate |-> null]

calculateStreak(es) ==
    IF Len(es) = 0 THEN [length |-> 0, startDate |-> null, endDate |-> null]
    ELSE LET uniqueDates == SortStrings(SetOrder(DateStrings(es)))
             s0 == [maxStreak |-> 1, currentStreak |-> 1,
                    maxStart |-> uniqueDates[1], maxEnd |-> uniqueDates[1],
                    currentStart |-> uniqueDates[1]]
             s == StreakScan(uniqueDates, 2, s0)
         IN [length |-> s.maxStreak, startDate |-> s.maxStart,
             endDate |-> s.maxEnd]

\* calculateDaysActive keyed by the UTC day instead of the local day
calculateDaysActiveUTC(es) ==
    IF Len(es) = 0 THEN 0
    ELSE Cardinality({UTCDayOf(es[i].date) : i \in 1..Len(es)})

calculateDaysActive(es) ==
    IF Len(es) = 0 THEN 0
    ELSE Cardinality({getLocalDateString(es[i].date) : i \in 1..Len(es)})

(***************************************************************************)
(* fetcher.js: processTraktHistory.                                        *)
(* A raw history item is a record whose nested records are optional:       *)
(* <<>> is a missing (undefined) field, <<v>> a present one.  watched_at   *)
(* is <<>> when the string does not parse, <<t>> when it parses to the     *)
(* instant t.                                                              *)
(***************************************************************************)
\* the value of getFullYear() of an Invalid Date
NaN == -1

\* JavaScript a !== b on numbers
StrictNe(a, b) == a = NaN \/ b = NaN \/ a /= b

\* JavaScript truthiness of an optional number
Truthy(opt) == opt /= <<>> /\ opt[1] /= 0 /\ opt[1] /= NaN

\* a > b where either side may be undefined (<<>>)
JsGt(a, b) == a /= <<>> /\ b /= <<>> /\ a[1] > b[1]

\* WatchedYear taken from the UTC date instead of the local date
WatchedYearUTC(item) ==
    IF item.watched_at = <<>> THEN NaN
    ELSE Civil(UTCDayOf(item.watched_at[1]))[1]

\* new Date(entry.watched_at).getFullYear()
WatchedYear(item) ==
    IF item.watched_at = <<>> THEN NaN ELSE getFullYear(item.watched_at[1])

\* the keys of yearCount, in insertion order
YearKeys(h) == SetOrder([i \in 1..Len(h) |-> WatchedYear(h[i])])

\* yearCount.get(y): undefined for a year that is no key
YearCountGet(h, y) ==
    LET n == Cardinality({i \in 1..Len(h) : WatchedYear(h[i]) = y})
    IN IF n = 0 THEN <<>> ELSE <<n>>

\* keys.reduce((a, b) => yearCount.get(a) > yearCount.get(b) ? a : b, acc)
RECURSIVE ReduceYears(_, _, _)
ReduceYears(h, keys, acc) ==
    IF keys = <<>> THEN acc
    ELSE ReduceYears(h, Tail(keys),
            IF JsGt(YearCountGet(h, acc), YearCountGet(h, Head(keys)))
            THEN acc ELSE Head(keys))

SelectedYear(h, target) ==
    IF Truthy(target) THEN target[1]
    ELSE ReduceYears(h, YearKeys(h), getFullYear(now))

DigitChars == <<"0", "1", "2", "3", "4", "5", "6", "7", "8", "9">>

\* String(n) for n >= 0
RECURSIVE NumberString(_)
NumberString(n) ==
    IF n < 10 THEN <<DigitChars[n + 1]>>
    ELSE NumberString(n \div 10) \o <<DigitChars[(n % 10) + 1]>>

\* String(n).padStart(2, '0')
PadStart2(n) ==
    IF Len(NumberString(n)) < 2 THEN <<"0">> \o NumberString(n)
    ELSE NumberString(n)

EpisodeCode(episode) ==
    <<"S">> \o PadStart2(episode.season) \o <<"E">> \o PadStart2(episode.number)

\* x.rating || null
RatingOrNull(r) == IF Truthy(r) THEN r ELSE null

\* the body of the second forEach for one item; acc.threw: a TypeError
\* (a property read of undefined) has ended the call
ProcessItem(item, selectedYear, acc) ==
    IF acc.threw THEN acc
    ELSE IF StrictNe(WatchedYear(item), selectedYear)
    THEN acc
    ELSE IF item.type = "episode"
    THEN IF item.episode = <<>> \/ item.show = <<>>
         THEN [acc EXCEPT !.threw = TRUE]
         ELSE [acc EXCEPT
                !.entries = Append(@,
                    [date |-> item.watched_at[1],
                     title |-> item.show[1].title,
                     episode |-> EpisodeCode(item.episode[1]),
                     year |-> item.show[1].year,
                     type |-> "episode",
                     rating |-> RatingOrNull(item.episode[1].rating)]),
                !.episodesCount = @ + 1,
                !.totalItemsWatched = @ + 1]
    ELSE IF item.type = "movie"
    THEN IF item.movie = <<>>
         THEN [acc EXCEPT !.threw = TRUE]
         ELSE [acc EXCEPT
                !.entries = Append(@,
                    [date |-> item.watched_at[1],
                     title |-> item.movie[1].title,
                     episode |-> null,
                     year |-> item.movie[1].year,
                     type |-> "movie",
                     rating |-> RatingOrNull(item.movie[1].rating)]),
                !.moviesCount = @ + 1,
                !.totalItemsWatched = @ + 1]
    ELSE acc

RECURSIVE ProcessItems(_, _, _)
ProcessItems(h, selectedYear, acc) ==
    IF h = <<>> THEN acc
    ELSE ProcessItems(Tail(h), selectedYear, ProcessItem(Head(h), selectedYear, acc))

processTraktHistory(h, target) ==
    LET selectedYear == SelectedYear(h, target)
    IN ProcessItems(h, selectedYear,
          [threw |-> FALSE, entries |-> <<>>, year |-> selectedYear,
           totalItemsWatched |-> 0, moviesCount |-> 0, episodesCount |-> 0])


(***************************************************************************)
(* generator.js: helpers shared by generateSvg and generateMultiYearSvg.   *)
(* An optional option is <<>> when the caller left it out and <<v>>        *)
(* otherwise.  Text is a sequence of one-character strings.                *)
(***************************************************************************)
FontWeights == {"regular", "medium", "semibold", "bold"}

\* loadFontsBase64(): the weights whose file exists in FONTS_DIR
loadFontsBase64 == fontFiles

\* getEmbeddedFonts(): <<the fonts returned, the cache afterwards>>;
\* an empty object is truthy, so it is cached as well
getEmbeddedFonts ==
    IF embeddedFonts = null THEN <<loadFontsBase64, <<loadFontsBase64>>>>
    ELSE <<embeddedFonts[1], embeddedFonts>>

\* generateFontFaceCSS(): empty without fonts, else the four @font-face
\* rules, each with the data of its weight, or 'undefined'
generateFontFaceCSS ==
    LET fonts == getEmbeddedFonts[1]
    IN IF fonts = {} THEN {}
       ELSE {<<w, w \in fonts>> : w \in FontWeights}

Entity(c) ==
    CASE c = "<" -> <<"&", "l", "t", ";">>
      [] c = ">" -> <<"&", "g", "t", ";">>
      [] c = "&" -> <<"&", "a", "m", "p", ";">>
      [] c = "'" -> <<"&", "a", "p", "o", "s", ";">>
      [] c = "\"" -> <<"&", "q", "u", "o", "t", ";">>
      [] OTHER -> <<c>>

\* every character replaced by its entity; the text is split in halves to
\* keep the evaluation shallow
RECURSIVE escapeXml(_)
escapeXml(unsafe) ==
    IF unsafe = <<>> THEN <<>>
    ELSE IF Len(unsafe) = 1 THEN Entity(unsafe[1])
    ELSE LET half == Len(unsafe) \div 2
         IN escapeXml(SubSeq(unsafe, 1, half))
                \o escapeXml(SubSeq(unsafe, half + 1, Len(unsafe)))

\* property names every object literal inherits from Object.prototype
ObjectPrototypeKeys ==
    {"constructor", "toString", "valueOf", "hasOwnProperty", "__proto__",
     "isPrototypeOf", "propertyIsEnumerable", "toLocaleString"}

\* themes[theme] || themes.dark: the palette found, or "inherited" for a
\* truthy value that is no palette (it has no colors)
ThemeLookup(theme) ==
    IF theme \in {"dark", "light"} THEN theme
    ELSE IF theme \in ObjectPrototypeKeys THEN "inherited"
    ELSE "dark"

OptionOr(opt, default) == IF opt = <<>> THEN default ELSE opt[1]

\* Math.ceil(num / den) for den > 0
CeilDiv(num, den) == -((-num) \div den)

Max(a, b) == IF a >= b THEN a ELSE b
Min(a, b) == IF a <= b THEN a ELSE b

\* Array.prototype.sort((a, b) => a.date.getTime() - b.date.getTime()): stable
RECURSIVE InsertByTime(_, _)
InsertByTime(x, sorted) ==
    IF sorted = <<>> THEN <<x>>
    ELSE IF x.date < Head(sorted).date THEN <<x>> \o sorted
    ELSE <<Head(sorted)>> \o InsertByTime(x, Tail(sorted))

RECURSIVE SortByTime(_)
SortByTime(es) ==
    IF es = <<>> THEN <<>>
    ELSE InsertByTime(es[Len(es)], SortByTime(SubSeq(es, 1, Len(es) - 1)))

\* entries.filter(entry => entry.date.getFullYear() === year)
\* a filter that also lets the entries of later years through
FilterYearAndLater(es, year) ==
    LET InYear(e) == getFullYear(e.date) >= year
    IN SelectSeq(es, InYear)

FilterYear(es, year) ==
    LET InYear(e) == getFullYear(e.date) = year
    IN SelectSeq(es, InYear)

\* groupEntriesByDate(entries).get(key) || []
ItemsForDay(es, key) ==
    LET OnDay(e) == getLocalDateString(e.date) = key
    IN SelectSeq(es, OnDay)

\* weeklyDistribution[d] for d in 0..6 (0 = Sunday)
WeeklyDistribution(es) ==
    [d \in 0..6 |-> Cardinality({i \in 1..Len(es) : getDay(es[i].date) = d})]

\* StartDate with the shift always taken from Sunday
StartDateSundayOnly(year, weekStart) ==
    LET jan1 == DateUTC(year, 0, 1)
        dayShift == getUTCDay(jan1)
    IN IF dayShift > 0 THEN jan1 - dayShift * HoursPerDay ELSE jan1

\* the shifted startDate, an instant
StartDate(year, weekStart) ==
    LET jan1 == DateUTC(year, 0, 1)
        startDay == getUTCDay(jan1)
        dayShift == IF weekStart = "monday" THEN (startDay + 6) % 7 ELSE startDay
    IN IF dayShift > 0 THEN jan1 - dayShift * HoursPerDay ELSE jan1

TotalDays(year, weekStart) ==
    CeilDiv(DateUTC(year, 11, 31) - StartDate(year, weekStart), HoursPerDay) + 1

TotalWeeks(year, weekStart) == CeilDiv(TotalDays(year, weekStart), 7)

\* the column and row of an entry in the grid-building loop
WeekIndex(date, startDate) == ((date - startDate) \div HoursPerDay) \div 7

DayIndex(date, weekStart) ==
    IF weekStart = "monday" THEN (getUTCDay(date) + 6) % 7 ELSE getUTCDay(date)

\* one iteration of the grid-building loop
GridStep(g, e, startDate, totalWeeks, weekStart) ==
    LET weekIndex == WeekIndex(e.date, startDate)
        dayIndex == DayIndex(e.date, weekStart)
    IN IF weekIndex >= 0 /\ weekIndex < totalWeeks
       THEN [grid |-> [g.grid EXCEPT ![<<dayIndex, weekIndex>>] = @ + 1],
             maxCount |-> Max(g.maxCount, g.grid[<<dayIndex, weekIndex>>] + 1)]
       ELSE g

RECURSIVE GridLoop(_, _, _, _, _)
GridLoop(g, es, startDate, totalWeeks, weekStart) ==
    IF es = <<>> THEN g
    ELSE GridLoop(GridStep(g, Head(es), startDate, totalWeeks, weekStart),
                  Tail(es), startDate, totalWeeks, weekStart)

BuildGrid(es, startDate, totalWeeks, weekStart) ==
    GridLoop([grid |-> [c \in (0..6) \X (0..(totalWeeks - 1)) |-> 0],
              maxCount |-> 0],
             es, startDate, totalWeeks, weekStart)

\* a <= b where b may be undefined (<<>>)
JsLe(a, b) == b /= <<>> /\ a <= b[1]

\* standalone.js, calculateColorIntensity(dayCount, stats): the stats are a
\* record of the optional thresholds p25, p50, p75, p90
calculateColorIntensity(dayCount, dayCountStats) ==
    IF dayCount = 0 THEN 0
    ELSE IF JsLe(dayCount, dayCountStats.p25) THEN 1
    ELSE IF JsLe(dayCount, dayCountStats.p50) THEN 2
    ELSE IF JsLe(dayCount, dayCountStats.p75) THEN 3
    ELSE IF JsLe(dayCount, dayCountStats.p90) THEN 4
    ELSE 4

\* getColor without the clamp to the last palette index
GetColorLevelUnclamped(count, maxCount) ==
    IF count = 0 THEN 0
    ELSE IF maxCount = 0 THEN 0
    ELSE CeilDiv(count * 4, maxCount)

\* getColor(count): the index into t.colors
GetColorLevel(count, maxCount) ==
    IF count = 0 THEN 0
    ELSE IF maxCount = 0 THEN 0
    ELSE Min(CeilDiv(count * 4, maxCount), 4)

\* cellDate of row day, column week: setUTCDate adds whole days
CellDate(startDate, day, week) == startDate + (week * 7 + day) * HoursPerDay

\* isOutsideYear with the last day of the year taken as outside
IsOutsideYearStrict(cellDate, year) ==
    cellDate < DateUTC(year, 0, 1) \/ cellDate >= DateUTC(year, 11, 31)

IsOutsideYear(cellDate, year) ==
    cellDate < DateUTC(year, 0, 1) \/ cellDate > DateUTC(year, 11, 31)

\* the cells that are drawn (not skipped by `if (isOutsideYear) continue`)
DrawnCells(year, startDate, totalWeeks) ==
    {c \in (0..6) \X (0..(totalWeeks - 1)) :
        ~IsOutsideYear(CellDate(startDate, c[1], c[2]), year)}

\* isStreakCell
IsStreakCell(streak, tooltipDate) ==
    /\ streak.length > 0
    /\ streak.startDate /= null
    /\ streak.endDate /= null
    /\ StrLE(streak.startDate, tooltipDate)
    /\ StrLE(tooltipDate, streak.endDate)

\* the text of one tooltip item line before escaping ("*": the bullet U+2022)
ItemLine(item) ==
    IF item.type = "episode" /\ item.episode /= null
    THEN <<"*", " ">> \o item.title \o <<" ">> \o item.episode
            \o <<" ", "(">> \o NumberString(item.year) \o <<")">>
    ELSE <<"*", " ">> \o item.title \o <<" ", "(">> \o NumberString(item.year)
            \o <<")">>


CELL_SIZE == 14
CELL_GAP == 3
GRID_OFFSET_X == 51
YEAR_HEIGHT == 180
HEADER_HEIGHT == 75

\* the length of tooltipTitle: 'Sun, 7. Jan 2024: 1 item watched'
TooltipTitleLength(dayNum, count) ==
    3 + 2 + Len(NumberString(dayNum)) + 2 + 3 + 1 + 4 + 2
      + Len(NumberString(count)) + 5 + (IF count /= 1 THEN 1 ELSE 0) + 8

\* Math.max(...lengths.map(n => n * 7)) of a non-empty sequence of lengths
RECURSIVE MaxLineWidth(_)
MaxLineWidth(lengths) ==
    IF Len(lengths) = 1 THEN lengths[1] * 7
    ELSE Max(lengths[1] * 7, MaxLineWidth(Tail(lengths)))

\* tooltipWidth, from the lengths of the title and of the item lines
TooltipWidth(titleLength, itemLengths) ==
    Max(280, MaxLineWidth(<<titleLength>> \o itemLengths))

\* tooltipX without the clamp to the right edge
TooltipXUnclamped(x, svgWidth, tooltipWidth) == x

\* tooltipX
TooltipX(x, svgWidth, tooltipWidth) ==
    Min(x, svgWidth - GRID_OFFSET_X - tooltipWidth - 10)

\* one drawn cell: its date key, the count and palette level shown, the
\* streak marker, the parts of tooltipTitle, the escaped tooltip item lines
\* and the tooltip's place.  In generateSvg (kind "single") the year of the
\* title is the `year` declared in the loop, cellDate.getFullYear(); in
\* generateMultiYearSvg it is the year of the pass.
Cell(es, streak, maxCount, startDate, c, svgWidth, year, kind) ==
    LET cellDate == CellDate(startDate, c[1], c[2])
        tooltipDate == getLocalDateString(cellDate)
        itemsForDay == ItemsForDay(es, tooltipDate)
        count == Len(itemsForDay)
        x == c[2] * (CELL_SIZE + CELL_GAP)
        tooltipWidth ==
            TooltipWidth(TooltipTitleLength(getDate(cellDate), count),
                         [i \in 1..count |-> Len(ItemLine(itemsForDay[i]))])
    IN [date |-> tooltipDate,
        count |-> count,
        level |-> GetColorLevel(count, maxCount),
        streakCell |-> IsStreakCell(streak, tooltipDate),
        title |-> [dayName |-> getDay(cellDate),
                   dayNum |-> getDate(cellDate),
                   monthName |-> getMonth(cellDate),
                   year |-> IF kind = "single" THEN getFullYear(cellDate)
                            ELSE year,
                   count |-> count,
                   word |-> IF count /= 1 THEN "items" ELSE "item"],
        lines |-> [i \in 1..count |-> escapeXml(ItemLine(itemsForDay[i]))],
        x |-> x,
        tooltipWidth |-> tooltipWidth,
        tooltipX |-> TooltipX(x, svgWidth, tooltipWidth)]

\* the bars of the weekly distribution always in the order of the array
WeeklyBarsInArrayOrder(weeklyDistribution, weekStart) ==
    LET maxWeeklyCount ==
            CHOOSE m \in {weeklyDistribution[d] : d \in 0..6} :
                \A d \in 0..6 : weeklyDistribution[d] <= m
        letters == IF weekStart = "monday"
                   THEN <<"M", "T", "W", "T", "F", "S", "S">>
                   ELSE <<"S", "M", "T", "W", "T", "F", "S">>
    IN [i \in 0..6 |->
           [day |-> letters[i + 1],
            count |-> weeklyDistribution[i],
            barHeight |-> IF maxWeeklyCount > 0
                          THEN RoundDiv(weeklyDistribution[i] * 45, maxWeeklyCount)
                          ELSE 0]]

\* the bar chart of the weekly distribution: for position i the letter, the
\* count written and the height of the bar
WeeklyBars(weeklyDistribution, weekStart) ==
    LET maxWeeklyCount ==
            CHOOSE m \in {weeklyDistribution[d] : d \in 0..6} :
                \A d \in 0..6 : weeklyDistribution[d] <= m
        letters == IF weekStart = "monday"
                   THEN <<"M", "T", "W", "T", "F", "S", "S">>
                   ELSE <<"S", "M", "T", "W", "T", "F", "S">>
    IN [i \in 0..6 |->
           LET dayIndex == IF weekStart = "monday" THEN (i + 1) % 7 ELSE i
           IN [day |-> letters[i + 1],
               count |-> weeklyDistribution[dayIndex],
               barHeight |-> IF maxWeeklyCount > 0
                             THEN RoundDiv(weeklyDistribution[dayIndex] * 45,
                                           maxWeeklyCount)
                             ELSE 0]]

\* the month labels with the column taken from January 1 instead of startDate
MonthLabelsFromJan1(year, startDate) ==
    LET DaysSinceStart(i) ==
            (DateUTC(year, i, 1) - DateUTC(year, 0, 1)) \div HoursPerDay
        Emitted(i) == ~(DaysSinceStart(i) < 0)
        kept == SelectSeq([i \in 1..12 |-> i - 1], Emitted)
    IN [k \in 1..Len(kept) |->
           [month |-> kept[k],
            weekIndex |-> DaysSinceStart(kept[k]) \div 7,
            x |-> (DaysSinceStart(kept[k]) \div 7) * (CELL_SIZE + CELL_GAP)]]

\* the month label loop: the labels emitted, in order, with the month index,
\* the column and the x written
MonthLabels(year, startDate) ==
    LET DaysSinceStart(i) == (DateUTC(year, i, 1) - startDate) \div HoursPerDay
        Emitted(i) == ~(DaysSinceStart(i) < 0)
        kept == SelectSeq([i \in 1..12 |-> i - 1], Emitted)
    IN [k \in 1..Len(kept) |->
           [month |-> kept[k],
            weekIndex |-> DaysSinceStart(kept[k]) \div 7,
            x |-> (DaysSinceStart(kept[k]) \div 7) * (CELL_SIZE + CELL_GAP)]]

\* what one year's pass computes, from the entries of that year
YearBlock(es, year, weekStart, svgWidth, kind) ==
    LET streak == calculateStreak(es)
        startDate == StartDate(year, weekStart)
        totalWeeks == TotalWeeks(year, weekStart)
        g == BuildGrid(es, startDate, totalWeeks, weekStart)
    IN [year |-> year,
        streak |-> streak,
        daysActive |-> calculateDaysActive(es),
        totalItems |-> Len(es),
        weekly |-> WeeklyDistribution(es),
        weeklyBars |-> WeeklyBars(WeeklyDistribution(es), weekStart),
        startDate |-> startDate,
        totalDays |-> TotalDays(year, weekStart),
        totalWeeks |-> totalWeeks,
        monthLabels |-> MonthLabels(year, startDate),
        grid |-> g.grid,
        maxCount |-> g.maxCount,
        cells |-> [c \in DrawnCells(year, startDate, totalWeeks) |->
                      Cell(es, streak, g.maxCount, startDate, c, svgWidth,
                           year, kind)]]

\* every place where text of the caller is put into the document:
\* site, the text given and the text written
HeaderInserts(username, displayName) ==
    {[site |-> "avatarHref", raw |-> username, text |-> username],
     [site |-> "nameHref", raw |-> username, text |-> username],
     [site |-> "displayName", raw |-> displayName,
      text |-> escapeXml(displayName)],
     [site |-> "usernameHref", raw |-> username, text |-> username],
     [site |-> "username", raw |-> username, text |-> escapeXml(username)]}

CellInserts(es, username, block) ==
    LET drawn == DrawnCells(block.year, block.startDate, block.totalWeeks)
        drawnDates ==
            {getLocalDateString(CellDate(block.startDate, c[1], c[2])) :
                c \in drawn}
    IN (IF drawn = {} THEN {}
        ELSE {[site |-> "historyHref", raw |-> username, text |-> username]})
       \cup {[site |-> "tooltipLine", raw |-> ItemLine(es[i]),
              text |-> escapeXml(ItemLine(es[i]))] :
               i \in {j \in 1..Len(es) :
                       getLocalDateString(es[j].date) \in drawnDates}}

\* generateSvg(entries, options): the document, or threw for a TypeError
generateSvg(es, opts) ==
    LET theme == OptionOr(opts.theme, "dark")
        year == OptionOr(opts.year, getFullYear(now))
        weekStart == OptionOr(opts.weekStart, "sunday")
        displayName == OptionOr(opts.displayName, <<>>)
        sortedEntries == SortByTime(FilterYear(es, year))
        SVG_WIDTH ==
            Max(1000, TotalWeeks(year, weekStart) * (CELL_SIZE + CELL_GAP) + 100)
        block == YearBlock(sortedEntries, year, weekStart, SVG_WIDTH, "single")
        t == ThemeLookup(theme)
    IN IF t = "inherited" THEN [threw |-> TRUE, kind |-> "single"]
       ELSE [threw |-> FALSE,
             kind |-> "single",
             width |-> SVG_WIDTH,
             height |-> 290,
             theme |-> t,
             css |-> generateFontFaceCSS,
             avatar |-> opts.profileImage /= null,
             logo |-> opts.logoBase64 /= null,
             blocks |-> <<block>>,
             inserts |-> HeaderInserts(opts.username, displayName)
                            \cup CellInserts(sortedEntries, opts.username, block)]

\* [...years].sort((a, b) => b - a)
RECURSIVE InsertDescending(_, _)
InsertDescending(x, sorted) ==
    IF sorted = <<>> THEN <<x>>
    ELSE IF x > Head(sorted) THEN <<x>> \o sorted
    ELSE <<Head(sorted)>> \o InsertDescending(x, Tail(sorted))

RECURSIVE SortDescending(_)
SortDescending(ys) ==
    IF ys = <<>> THEN <<>>
    ELSE InsertDescending(ys[Len(ys)], SortDescending(SubSeq(ys, 1, Len(ys) - 1)))

\* generateMultiYearSvg(entries, options)
generateMultiYearSvg(es, opts) ==
    LET theme == OptionOr(opts.theme, "dark")
        years == OptionOr(opts.years, <<getFullYear(now)>>)
        weekStart == OptionOr(opts.weekStart, "sunday")
        displayName == OptionOr(opts.displayName, opts.username)
        sortedYears == SortDescending(years)
        t == ThemeLookup(theme)
        blocks == [i \in 1..Len(sortedYears) |->
                     YearBlock(FilterYear(es, sortedYears[i]), sortedYears[i],
                               weekStart, 1000, "multi")]
    IN IF t = "inherited" /\ (opts.profileImage = null \/ sortedYears /= <<>>)
       THEN [threw |-> TRUE, kind |-> "multi"]
       ELSE [threw |-> FALSE,
             kind |-> "multi",
             width |-> 1000,
             height |-> HEADER_HEIGHT + 40 + Len(sortedYears) * YEAR_HEIGHT,
             yearOffsets |-> [i \in 1..Len(sortedYears) |->
                                HEADER_HEIGHT + 40 + (i - 1) * YEAR_HEIGHT],
             theme |-> t,
             css |-> generateFontFaceCSS,
             avatar |-> opts.profileImage /= null,
             logo |-> opts.logoBase64 /= null,
             blocks |-> blocks,
             inserts |-> HeaderInserts(opts.username, displayName)
                 \cup UNION {CellInserts(FilterYear(es, sortedYears[i]),
                                         opts.username, blocks[i]) :
                                i \in 1..Len(sortedYears)}]

(***************************************************************************)
(* standalone.js: the earlier single-file renderer.  Its generateSvg takes *)
(* the entries, the itemsPerDay map and the options.  The map is modelled  *)
(* by the sequence of the items put into it; its processTraktHistory keys  *)
(* each item by the UTC date of the watch.                                 *)
(***************************************************************************)
STANDALONE_CELL_SIZE == 11
CELL_MARGIN == 2
SecondsPerHour == 3600

\* date.toISOString().split('T')[0]
ISODateString(date) == Civil(UTCDayOf(date))

\* itemsPerDay.get(key) || []
StandaloneItemsForDay(es, key) ==
    LET OnDay(e) == ISODateString(e.date) = key
    IN SelectSeq(es, OnDay)

\* the sorted day counts of itemsPerDay
RECURSIVE InsertAscending(_, _)
InsertAscending(x, sorted) ==
    IF sorted = <<>> THEN <<x>>
    ELSE IF x <= Head(sorted) THEN <<x>> \o sorted
    ELSE <<Head(sorted)>> \o InsertAscending(x, Tail(sorted))

RECURSIVE SortAscending(_)
SortAscending(ns) ==
    IF ns = <<>> THEN <<>>
    ELSE InsertAscending(Head(ns), SortAscending(Tail(ns)))

\* sortedCounts[Math.floor(sortedCounts.length * num / den)] || 0
Percentile(sortedCounts, num, den) ==
    LET i == (Len(sortedCounts) * num) \div den
    IN IF i < Len(sortedCounts) THEN <<sortedCounts[i + 1]>> ELSE <<0>>

calculateDayCountStats(es) ==
    LET keys == SetOrder([i \in 1..Len(es) |-> ISODateString(es[i].date)])
        dayCounts == [k \in 1..Len(keys) |->
                        Len(StandaloneItemsForDay(es, keys[k]))]
        sortedCounts == SortAscending(dayCounts)
    IN [p25 |-> Percentile(sortedCounts, 25, 100),
        p50 |-> Percentile(sortedCounts, 50, 100),
        p75 |-> Percentile(sortedCounts, 75, 100),
        p90 |-> Percentile(sortedCounts, 90, 100)]

\* totalDays of standalone.js: endDate is December 31, 23:59:59
StandaloneTotalDays(year, weekStart) ==
    CeilDiv((DateUTC(year, 11, 31) - StartDate(year, weekStart)) * SecondsPerHour
                + 23 * SecondsPerHour + 59 * 60 + 59,
            HoursPerDay * SecondsPerHour) + 1

StandaloneTotalWeeks(year, weekStart) ==
    CeilDiv(StandaloneTotalDays(year, weekStart), 7)

\* one iteration of the grid loop of standalone.js: the entry is placed by
\* the midnight of its UTC date
StandaloneGridStep(g, e, startDate, totalWeeks, weekStart) ==
    LET entryDate == UTCDayOf(e.date) * HoursPerDay
        weekIndex == WeekIndex(entryDate, startDate)
        dayIndex == DayIndex(entryDate, weekStart)
    IN IF weekIndex >= 0 /\ weekIndex < totalWeeks /\ dayIndex >= 0
           /\ dayIndex < 7
       THEN [g EXCEPT ![<<dayIndex, weekIndex>>] = @ + 1]
       ELSE g

RECURSIVE StandaloneGridLoop(_, _, _, _, _)
StandaloneGridLoop(g, es, startDate, totalWeeks, weekStart) ==
    IF es = <<>> THEN g
    ELSE StandaloneGridLoop(
            StandaloneGridStep(g, Head(es), startDate, totalWeeks, weekStart),
            Tail(es), startDate, totalWeeks, weekStart)

\* the lengths of tooltipLines: the title line, one line per series of the
\* day, one line per movie of the day
StandaloneLineLengths(count, itemsForDay) ==
    LET episodes == SelectSeq(itemsForDay, LAMBDA e : e.episode /= null)
        movies == SelectSeq(itemsForDay, LAMBDA e : e.episode = null)
        titles == SetOrder([i \in 1..Len(episodes) |-> episodes[i].title])
        SeriesCount(t) ==
            Cardinality({i \in 1..Len(episodes) : episodes[i].title = t})
        FirstYear(t) ==
            itemsForDay[CHOOSE i \in 1..Len(itemsForDay) :
                /\ itemsForDay[i].title = t
                /\ \A j \in 1..(i - 1) : itemsForDay[j].title /= t].year
    IN <<10 + 2 + Len(NumberString(count)) + 5
            + (IF count /= 1 THEN 1 ELSE 0) + 8>>
       \o [k \in 1..Len(titles) |->
              2 + Len(NumberString(SeriesCount(titles[k]))) + 2
                + Len(titles[k]) + 2
                + Len(NumberString(FirstYear(titles[k]))) + 1]
       \o [k \in 1..Len(movies) |->
              2 + Len(movies[k].title) + 2 + Len(NumberString(movies[k].year))
                + 1]

RECURSIVE MaxOf(_)
MaxOf(ns) == IF Len(ns) = 1 THEN ns[1] ELSE Max(ns[1], MaxOf(Tail(ns)))

\* tooltipWidth of standalone.js
StandaloneTooltipWidth(lineLengths) ==
    Min(Max(MaxOf(lineLengths) * 7, 150), 300)

\* one matrix position: every position is drawn, with opacity 0 outside the
\* year; tooltipX2 is twice the x of the tooltip group,
\* x - tooltipWidth / 2 + CELL_SIZE / 2
StandaloneCell(itemsPerDay, grid, dayCountStats, year, startDate, c) ==
    LET count == grid[c]
        cellDate == CellDate(startDate, c[1], c[2])
        tooltipDate == ISODateString(cellDate)
        x == c[2] * (STANDALONE_CELL_SIZE + CELL_MARGIN)
        itemsForDay == StandaloneItemsForDay(itemsPerDay, tooltipDate)
        tooltipWidth ==
            StandaloneTooltipWidth(StandaloneLineLengths(count, itemsForDay))
    IN [date |-> tooltipDate,
        count |-> count,
        level |-> calculateColorIntensity(count, dayCountStats),
        opacity |-> IF IsOutsideYear(cellDate, year) THEN 0 ELSE 1,
        x |-> x,
        tooltipWidth |-> tooltipWidth,
        tooltipX2 |-> 2 * x - tooltipWidth + STANDALONE_CELL_SIZE]

\* generateSvg(entries, itemsPerDay, options) of standalone.js
standaloneGenerateSvg(es, itemsPerDay, opts) ==
    LET theme == OptionOr(opts.theme, "dark")
        year == OptionOr(opts.year, getFullYear(now))
        weekStart == OptionOr(opts.weekStart, "sunday")
        dayCountStats ==
            OptionOr(opts.dayCountStats,
                     [p25 |-> <<>>, p50 |-> <<>>, p75 |-> <<>>, p90 |-> <<>>])
        sortedEntries == SortByTime(es)
        startDate == StartDate(year, weekStart)
        totalDays == StandaloneTotalDays(year, weekStart)
        totalWeeks == StandaloneTotalWeeks(year, weekStart)
        positions == (0..6) \X (0..(totalWeeks - 1))
        grid == StandaloneGridLoop([c \in positions |-> 0], sortedEntries,
                                   startDate, totalWeeks, weekStart)
    IN IF ThemeLookup(theme) = "inherited"
       THEN [threw |-> TRUE, kind |-> "standalone"]
       ELSE [threw |-> FALSE,
             kind |-> "standalone",
             width |-> totalWeeks * (STANDALONE_CELL_SIZE + CELL_MARGIN) + 60,
             theme |-> ThemeLookup(theme),
             year |-> year,
             startDate |-> startDate,
             totalDays |-> totalDays,
             totalWeeks |-> totalWeeks,
             grid |-> grid,
             cells |-> [c \in positions |->
                          StandaloneCell(itemsPerDay, grid, dayCountStats,
                                         year, startDate, c)]]

(***************************************************************************)
(* cli.js: the -w / --weekstart flag.                                      *)
(***************************************************************************)
\* String.prototype.toLowerCase on the values the model passes
ToLowerCase(value) ==
    CASE value = "Monday" -> "monday"
      [] value = "SUNDAY" -> "sunday"
      [] OTHER -> value

ParseWeekStart(value) ==
    IF ToLowerCase(value) \in {"sunday", "monday"} THEN ToLowerCase(value)
    ELSE "sunday"


(***************************************************************************)
(* Inputs of the model.                                                    *)
(***************************************************************************)
Chars == {"a", "<", ">", "&", "'", "\""}

RECURSIVE TextsOfLength(_)
TextsOfLength(n) ==
    IF n = 0 THEN {<<>>}
    ELSE {Append(t, c) : t \in TextsOfLength(n - 1), c \in Chars}

Texts == UNION {TextsOfLength(n) : n \in 0..MaxTextLen}

\* an entry as processTraktHistory returns it for a movie
MovieEntry(date, title) ==
    [date |-> date, title |-> title, episode |-> null, year |-> 1999,
     type |-> "movie", rating |-> null]

DefaultOptions ==
    [theme |-> <<>>, year |-> <<>>, years |-> <<>>, weekStart |-> <<>>,
     username |-> <<"u">>, displayName |-> <<>>, profileImage |-> null,
     logoBase64 |-> null, dayCountStats |-> <<>>]

\* instants around the two ends of year y and inside it
GridProbes(y) ==
    {DateUTC(y, 0, 1) - 4, DateUTC(y, 0, 1) + 3, DateUTC(y, 1, 15) + 12,
     DateUTC(y, 11, 30) + 21, DateUTC(y, 11, 31) + 20, DateUTC(y + 1, 0, 1) + 3}

\* instants on January 1, 2, 3 (twice) and 5 of MaxYear and on the eve
StatProbes ==
    {DateUTC(MaxYear, 0, 1) - 2, DateUTC(MaxYear, 0, 1) + 12,
     DateUTC(MaxYear, 0, 2) + 12, DateUTC(MaxYear, 0, 3) + 12,
     DateUTC(MaxYear, 0, 3) + 21, DateUTC(MaxYear, 0, 5) + 12}

Noon == DateUTC(MaxYear, 5, 15) + 12

MovieRecord == [title |-> <<"m">>, year |-> 1999, rating |-> <<8>>]
ShowRecord == [title |-> <<"s">>, year |-> 2001]
EpisodeRecord == [season |-> 1, number |-> 12, title |-> <<"e">>, rating |-> <<>>]

RawItem(watched_at, type, episode, show, movie) ==
    [watched_at |-> watched_at, type |-> type, episode |-> episode,
     show |-> show, movie |-> movie]

RawItems ==
    {RawItem(<<Noon>>, "movie", <<>>, <<>>, <<MovieRecord>>),
     RawItem(<<Noon + 24>>, "episode", <<EpisodeRecord>>, <<ShowRecord>>, <<>>),
     RawItem(<<Noon>>, "episode", <<>>, <<ShowRecord>>, <<>>),
     RawItem(<<Noon>>, "movie", <<>>, <<>>, <<>>),
     RawItem(<<Noon>>, "season", <<>>, <<ShowRecord>>, <<>>),
     RawItem(<<>>, "movie", <<>>, <<>>, <<MovieRecord>>),
     RawItem(<<DateUTC(MaxYear - 1, 5, 15)>>, "movie", <<>>, <<>>, <<MovieRecord>>),
     RawItem(<<DateUTC(MaxYear, 0, 1) - 2>>, "movie", <<>>, <<>>, <<MovieRecord>>)}

(***************************************************************************)
(* fetcher.js: the network functions.  The answer of a collaborator is a   *)
(* record with ok = FALSE when the request fails (fetch rejects, or the     *)
(* status is not ok) and with the data read from the response otherwise.   *)
(***************************************************************************)
MaxPages == 3

\* traktFetch(endpoint): throws when the request fails
traktFetch(answer) == [threw |-> ~answer.ok, data |-> answer]

\* fetchProfileData(username)
fetchProfileData(username, answer) ==
    LET r == traktFetch(answer)
    IN IF r.threw
       THEN [displayName |-> username, profileImage |-> null,
             username |-> username]
       ELSE [displayName |-> OptionOr(r.data.name, username),
             profileImage |-> OptionOr(r.data.avatar, null),
             username |-> r.data.username]

\* fetchUserStats(username)
fetchUserStats(answer) ==
    LET r == traktFetch(answer)
    IN IF r.threw
       THEN [moviesAllTime |-> 0, episodesAllTime |-> 0, followers |-> 0]
       ELSE [moviesAllTime |-> OptionOr(r.data.movies, 0),
             episodesAllTime |-> OptionOr(r.data.episodes, 0),
             followers |-> OptionOr(r.data.followers, 0)]

\* imageToBase64(url): the data URI, or null
imageToBase64(answer) == IF answer.ok THEN answer.dataUri ELSE null

\* fetchTraktHistory with the catch emptying the list it has gathered
FetchHistoryPageDropsPages(pages, failsAt, target, page, allHistory) ==
    IF page = failsAt
    THEN [done |-> TRUE, page |-> page, allHistory |-> <<>>]
    ELSE LET data == pages[page]
             all == allHistory \o data
         IN IF /\ target /= 0
               /\ \A i \in 1..Len(data) :
                     WatchedYear(data[i]) /= NaN /\ WatchedYear(data[i]) < target
            THEN [done |-> TRUE, page |-> page, allHistory |-> allHistory]
            ELSE [done |-> page >= Len(pages) \/ Len(data) = 0,
                  page |-> IF page >= Len(pages) \/ Len(data) = 0
                           THEN page ELSE page + 1,
                  allHistory |-> all]

\* fetchTraktHistory(username, type, targetYear): one turn of its loop, the
\* request for a page and what follows it.  The request for page failsAt
\* throws, which ends the loop in the catch; x-pagination-page-count is
\* the number of pages.
FetchHistoryPage(pages, failsAt, target, page, allHistory) ==
    IF page = failsAt
    THEN [done |-> TRUE, page |-> page, allHistory |-> allHistory]
    ELSE LET data == pages[page]
             all == allHistory \o data
         IN IF /\ target /= 0
               /\ \A i \in 1..Len(data) :
                     WatchedYear(data[i]) /= NaN /\ WatchedYear(data[i]) < target
            THEN [done |-> TRUE, page |-> page, allHistory |-> allHistory]
            ELSE [done |-> page >= Len(pages) \/ Len(data) = 0,
                  page |-> IF page >= Len(pages) \/ Len(data) = 0
                           THEN page ELSE page + 1,
                  allHistory |-> all]

(***************************************************************************)
(* cli.js: main().  An argument is modelled by what the parser reads of    *)
(* it: whether it starts with '-', its flag name (dashes stripped, lower    *)
(* case), the string itself, its text, whether it holds a ',', the numbers *)
(* parseInt finds in it (none for NaN) and its length.                     *)
(***************************************************************************)
FlagArg(name) ==
    [dash |-> TRUE, flag |-> name, str |-> name, text |-> <<"-">>,
     comma |-> FALSE, ints |-> <<>>, len |-> 2]

WordArg(str, text) ==
    [dash |-> FALSE, flag |-> "", str |-> str, text |-> text,
     comma |-> FALSE, ints |-> <<>>, len |-> Len(text)]

YearArg(y) ==
    [dash |-> FALSE, flag |-> "", str |-> "year", text |-> NumberString(y),
     comma |-> FALSE, ints |-> <<y>>, len |-> Len(NumberString(y))]

YearListArg(ys) ==
    [dash |-> FALSE, flag |-> "", str |-> "years", text |-> <<",">>,
     comma |-> TRUE, ints |-> ys, len |-> 5 * Len(ys) - 1]

\* the current year when the years given after a flag are used
DefaultYearsUTC(date) == <<Civil(UTCDayOf(date))[1]>>

\* let years = [new Date().getFullYear()]
DefaultYears(date) == <<getFullYear(date)>>

\* yearList.forEach(y => { if (!years.includes(y)) years.push(y) })
RECURSIVE PushMissing(_, _)
PushMissing(years, yearList) ==
    IF yearList = <<>> THEN years
    ELSE PushMissing(IF \E i \in 1..Len(years) : years[i] = Head(yearList)
                     THEN years ELSE Append(years, Head(yearList)),
                     Tail(yearList))

\* the argument loop of main(), from argument i on
RECURSIVE ParseArguments(_, _, _)
ParseArguments(args, i, st) ==
    IF i > Len(args) THEN st
    ELSE LET arg == args[i]
             \* value && !value.startsWith('-')
             hasValue == i < Len(args) /\ ~args[i + 1].dash
                            /\ args[i + 1].len > 0
             value == args[i + 1]
         IN IF arg.dash
            THEN IF arg.flag \in {"y", "year", "years"}
                 THEN IF ~hasValue THEN ParseArguments(args, i + 1, st)
                      ELSE IF value.comma
                      THEN ParseArguments(args, i + 2,
                              [st EXCEPT !.years = value.ints,
                                         !.yearsSpecified = TRUE])
                      ELSE IF value.ints /= <<>>
                      THEN ParseArguments(args, i + 2,
                              [st EXCEPT !.years = <<value.ints[1]>>,
                                         !.yearsSpecified = TRUE])
                      ELSE ParseArguments(args, i + 2, st)
                 ELSE IF arg.flag \in {"w", "weekstart"}
                 THEN IF ~hasValue THEN ParseArguments(args, i + 1, st)
                      ELSE ParseArguments(args, i + 2,
                              [st EXCEPT !.weekStart = ParseWeekStart(value.str)])
                 ELSE IF arg.flag \in {"o", "output", "g", "gradient", "t", "type"}
                 THEN ParseArguments(args, IF hasValue THEN i + 2 ELSE i + 1, st)
                 ELSE IF arg.flag \in {"p", "png"}
                 THEN ParseArguments(args, i + 1, [st EXCEPT !.exportPng = TRUE])
                 ELSE ParseArguments(args, i + 1, st)
            ELSE IF st.username = null
            THEN ParseArguments(args, i + 1, [st EXCEPT !.username = arg.text])
            ELSE IF (arg.comma \/ (arg.ints /= <<>> /\ arg.len = 4))
                       /\ arg.ints /= <<>>
            THEN LET yearList == IF arg.comma THEN arg.ints ELSE <<arg.ints[1]>>
                 IN ParseArguments(args, i + 1,
                       IF ~st.yearsSpecified
                       THEN [st EXCEPT !.years = yearList,
                                       !.yearsSpecified = TRUE]
                       ELSE [st EXCEPT !.years = PushMissing(@, yearList)])
            ELSE ParseArguments(args, i + 1, st)

\* Math.min(...years) of a non-empty list
MinOfYears(years) ==
    CHOOSE y \in {years[i] : i \in 1..Len(years)} :
        \A i \in 1..Len(years) : y <= years[i]

\* for (const year of years) allEntries = allEntries.concat(entries):
\* threw when a call of processTraktHistory throws
RECURSIVE ProcessYears(_, _, _)
ProcessYears(rawHistory, years, acc) ==
    IF years = <<>> \/ acc.threw THEN acc
    ELSE LET r == processTraktHistory(rawHistory, <<Head(years)>>)
         IN ProcessYears(rawHistory, Tail(years),
               IF r.threw THEN [threw |-> TRUE, entries |-> acc.entries]
               ELSE [threw |-> FALSE, entries |-> acc.entries \o r.entries])

\* svgOptions with the year or years and the theme
SvgOptions(run, theme) ==
    [theme |-> <<theme>>,
     year |-> IF Len(run.years) > 1 THEN <<>>
              ELSE IF run.years = <<>> THEN <<>> ELSE <<run.years[1]>>,
     years |-> IF Len(run.years) > 1 THEN <<run.years>> ELSE <<>>,
     weekStart |-> <<run.weekStart>>,
     username |-> run.username,
     displayName |-> <<run.profile.displayName>>,
     profileImage |-> run.profileImageBase64,
     logoBase64 |-> run.logoBase64,
     dayCountStats |-> <<>>]

\* no run of main() is under way
NoRun == [pc |-> "none"]

(***************************************************************************)
(* The state machine: the values every specification starts from, and the  *)
(* calls.                                                                  *)
(***************************************************************************)
NoStats == [streak |-> <<>>, daysActive |-> <<>>]
NoFirst == [single |-> <<>>, multi |-> <<>>]
NoColor == [count |-> 0, stats |-> <<>>, maxCount |-> 0, intensity |-> <<>>,
            level |-> <<>>]

\* nothing has been called yet, a run of main() apart
Quiet ==
    /\ history = <<>>
    /\ targetYear = <<>>
    /\ processed = <<>>
    /\ stats = NoStats
    /\ svg = <<>>
    /\ firstSvg = NoFirst
    /\ cli = [weekStart |-> "sunday", weekStartArg |-> <<>>]
    /\ fontFiles = FontWeights
    /\ embeddedFonts = null

Idle == Quiet /\ net = NoRun

\* no colour scheme call is under way
NoCalls == color = NoColor

\* one call of generateSvg: the result, and the font cache it fills
RenderSingle ==
    /\ svg' = <<generateSvg(entries, options)>>
    /\ embeddedFonts' = getEmbeddedFonts[2]
    /\ UNCHANGED <<net, color, tz, now, fontFiles, history, targetYear, processed, entries,
                   options, stats, cli>>

\* one call of generateMultiYearSvg
RenderMulti ==
    /\ svg' = <<generateMultiYearSvg(entries, options)>>
    /\ embeddedFonts' = getEmbeddedFonts[2]
    /\ UNCHANGED <<net, color, tz, now, fontFiles, history, targetYear, processed, entries,
                   options, stats, cli>>

CallGenerateSvg == svg = <<>> /\ RenderSingle /\ UNCHANGED firstSvg

CallGenerateMultiYearSvg == svg = <<>> /\ RenderMulti /\ UNCHANGED firstSvg

(***************************************************************************)
(* Spec: the renderers on the entries of a year, in every time zone.       *)
(***************************************************************************)
Init ==
    /\ Idle
    /\ NoCalls
    /\ tz \in TZOffsets
    /\ now = Noon
    /\ entries = <<>>
    /\ \E y \in Years, ws \in {"sunday", "monday"} :
          options = [DefaultOptions EXCEPT !.year = <<y>>, !.years = <<<<y>>>>,
                                           !.weekStart = <<ws>>]

AddEntry ==
    /\ svg = <<>>
    /\ Len(entries) < MaxEntries
    /\ \E p \in GridProbes(options.year[1]) :
          \* the history arrives newest first
          /\ IF entries = <<>> THEN TRUE ELSE p <= entries[Len(entries)].date
          /\ entries' = Append(entries, MovieEntry(p, <<"a">>))
    /\ UNCHANGED <<net, color, tz, now, fontFiles, embeddedFonts, history, targetYear,
                   processed, options, stats, svg, firstSvg, cli>>

Next == AddEntry \/ CallGenerateSvg \/ CallGenerateMultiYearSvg

Spec == Init /\ [][Next]_vars

(***************************************************************************)
(* SpecStats: calculateStreak and calculateDaysActive on any entry list.   *)
(***************************************************************************)
InitStats ==
    /\ Idle
    /\ NoCalls
    /\ tz \in TZOffsets
    /\ now = Noon
    /\ entries = <<>>
    /\ options = DefaultOptions

AddStatEntry ==
    /\ stats = NoStats
    /\ Len(entries) < MaxStatEntries
    /\ \E p \in StatProbes : entries' = Append(entries, MovieEntry(p, <<"a">>))
    /\ UNCHANGED <<net, color, tz, now, fontFiles, embeddedFonts, history, targetYear,
                   processed, options, stats, svg, firstSvg, cli>>

CallCalculateStreak ==
    /\ stats.streak = <<>>
    /\ stats' = [stats EXCEPT !.streak = <<calculateStreak(entries)>>]
    /\ UNCHANGED <<net, color, tz, now, fontFiles, embeddedFonts, history, targetYear,
                   processed, entries, options, svg, firstSvg, cli>>

CallCalculateDaysActive ==
    /\ stats.daysActive = <<>>
    /\ stats' = [stats EXCEPT !.daysActive = <<calculateDaysActive(entries)>>]
    /\ UNCHANGED <<net, color, tz, now, fontFiles, embeddedFonts, history, targetYear,
                   processed, entries, options, svg, firstSvg, cli>>

NextStats == AddStatEntry \/ CallCalculateStreak \/ CallCalculateDaysActive

SpecStats == InitStats /\ [][NextStats]_vars

(***************************************************************************)
(* SpecHistory: processTraktHistory on any list of raw items.              *)
(***************************************************************************)
InitHistory ==
    /\ Idle
    /\ NoCalls
    /\ tz \in TZOffsets
    /\ now \in {Noon, DateUTC(MaxYear - 1, 5, 15)}
    /\ entries = <<>>
    /\ options = DefaultOptions

AddHistoryItem ==
    /\ processed = <<>>
    /\ Len(history) < MaxHistory
    /\ \E item \in RawItems : history' = Append(history, item)
    /\ UNCHANGED <<net, color, tz, now, fontFiles, embeddedFonts, targetYear, processed,
                   entries, options, stats, svg, firstSvg, cli>>

CallProcessTraktHistory ==
    /\ processed = <<>>
    /\ \E target \in {<<>>, <<MaxYear>>} :
          /\ targetYear' = target
          /\ processed' = <<processTraktHistory(history, target)>>
    /\ UNCHANGED <<net, color, tz, now, fontFiles, embeddedFonts, history, entries, options,
                   stats, svg, firstSvg, cli>>

NextHistory == AddHistoryItem \/ CallProcessTraktHistory

SpecHistory == InitHistory /\ [][NextHistory]_vars


(***************************************************************************)
(* SpecTheme: the renderers and the command line on any theme and          *)
(* week-start value.                                                       *)
(***************************************************************************)
ThemeArgs ==
    {<<>>, <<"dark">>, <<"light">>, <<"neon">>, <<"">>, <<"constructor">>,
     <<"toString">>}

WeekStartArgs ==
    {<<>>, <<"sunday">>, <<"monday">>, <<"Monday">>, <<"tuesday">>, <<"">>}

InitTheme ==
    /\ Idle
    /\ NoCalls
    /\ tz = 0
    /\ now = Noon
    /\ entries \in {<<>>, <<MovieEntry(Noon, <<"a">>)>>}
    /\ \E th \in ThemeArgs, ws \in WeekStartArgs :
          options = [DefaultOptions EXCEPT !.theme = th, !.weekStart = ws,
                                           !.year = <<MaxYear>>,
                                           !.years = <<<<MaxYear>>>>]

\* main(): the value after -w, when there is one that starts with no '-'
CliWeekStartFlag ==
    /\ \E value \in {a[1] : a \in WeekStartArgs \ {<<>>, <<"">>}} :
          cli' = [weekStart |-> ParseWeekStart(value), weekStartArg |-> <<value>>]
    /\ UNCHANGED <<net, color, tz, now, fontFiles, embeddedFonts, history, targetYear,
                   processed, entries, options, stats, svg, firstSvg>>

NextTheme == CallGenerateSvg \/ CallGenerateMultiYearSvg \/ CliWeekStartFlag

SpecTheme == InitTheme /\ [][NextTheme]_vars

(***************************************************************************)
(* SpecText: the renderers on any user name, display name and title.       *)
(***************************************************************************)
InitText ==
    /\ Idle
    /\ NoCalls
    /\ tz = 0
    /\ now = Noon
    /\ \E title \in Texts : entries = <<MovieEntry(Noon, title)>>
    /\ \E user \in Texts, name \in {<<>>, <<<<"T", "&", "J">>>>} :
          options = [DefaultOptions EXCEPT !.username = user,
                                           !.displayName = name,
                                           !.year = <<MaxYear>>,
                                           !.years = <<<<MaxYear>>>>]

NextText == CallGenerateSvg \/ CallGenerateMultiYearSvg

SpecText == InitText /\ [][NextText]_vars

(***************************************************************************)
(* SpecClock: repeated renderer calls on the same entries and options,     *)
(* while the clock advances and the font files change.                     *)
(***************************************************************************)
MaxClockHours == 24

ClockStart == DateUTC(MaxYear, 11, 31) + 12

InitClock ==
    /\ Idle
    /\ NoCalls
    /\ tz = 0
    /\ now = ClockStart
    /\ entries = <<MovieEntry(ClockStart, <<"a">>)>>
    /\ \/ options = DefaultOptions
       \/ options = [DefaultOptions EXCEPT !.year = <<MaxYear>>,
                                           !.years = <<<<MaxYear>>>>]

Tick ==
    /\ now < ClockStart + MaxClockHours
    /\ now' = now + 12
    /\ UNCHANGED <<net, color, tz, fontFiles, embeddedFonts, history, targetYear, processed,
                   entries, options, stats, svg, firstSvg, cli>>

FontFilesChange ==
    /\ fontFiles' = IF fontFiles = {} THEN FontWeights ELSE {}
    /\ UNCHANGED <<net, color, tz, now, embeddedFonts, history, targetYear, processed,
                   entries, options, stats, svg, firstSvg, cli>>

RepeatGenerateSvg ==
    /\ RenderSingle
    /\ firstSvg' = IF firstSvg.single = <<>>
                   THEN [firstSvg EXCEPT !.single = svg'] ELSE firstSvg

RepeatGenerateMultiYearSvg ==
    /\ RenderMulti
    /\ firstSvg' = IF firstSvg.multi = <<>>
                   THEN [firstSvg EXCEPT !.multi = svg'] ELSE firstSvg

NextClock ==
    Tick \/ FontFilesChange \/ RepeatGenerateSvg \/ RepeatGenerateMultiYearSvg

SpecClock == InitClock /\ [][NextClock]_vars


(***************************************************************************)
(* Properties of the activity grid (specification Spec).                   *)
(***************************************************************************)
Rendered == svg /= <<>> /\ ~svg[1].threw

RenderedBlocks == {svg[1].blocks[b] : b \in 1..Len(svg[1].blocks)}

WeekStartOption == OptionOr(options.weekStart, "sunday")

\* the sum of the cells: one pair per unit counted in a cell
GridSum(grid) ==
    Cardinality(UNION {{<<c, k>> : k \in 1..grid[c]} : c \in DOMAIN grid})

EntriesOfYear(year) ==
    {i \in 1..Len(entries) : getFullYear(entries[i].date) = year}

\* C1: in every rendered year block, the sum of all grid cells after the
\* grid-building loop equals the number of entries whose local calendar year
\* is the year of the block.
GridSumEqualsYearEntries ==
    Rendered =>
        \A blk \in RenderedBlocks :
            GridSum(blk.grid) = Cardinality(EntriesOfYear(blk.year))

\* C2: in every rendered year block, the count shown for the drawn cell at
\* row d, column w equals the number of entries of the year whose local
\* calendar day is the calendar date startDate + 7*w + d days.
CellCountEqualsLocalDayEntries ==
    Rendered =>
        \A blk \in RenderedBlocks :
            \A c \in DOMAIN blk.cells :
                blk.cells[c].count =
                    Cardinality({i \in EntriesOfYear(blk.year) :
                        LocalDayOf(entries[i].date) =
                            UTCDayOf(CellDate(blk.startDate, c[1], c[2]))})

\* C3: for every year and weekStart in {sunday, monday}, the grid startDate
\* is the midnight of the configured week-start weekday on or before
\* January 1 of the year, at most 6 days before it; for 2024 it is
\* 2024-01-01 with monday and 2023-12-31 with sunday.
StartDateIsWeekStartOnOrBeforeJan1 ==
    Rendered /\ WeekStartOption \in {"sunday", "monday"} =>
        \A blk \in RenderedBlocks :
            LET jan1 == DateUTC(blk.year, 0, 1)
            IN /\ blk.startDate % HoursPerDay = 0
               /\ blk.startDate <= jan1
               /\ jan1 - blk.startDate <= 6 * HoursPerDay
               /\ getUTCDay(blk.startDate) =
                      (IF WeekStartOption = "monday" THEN 1 ELSE 0)
               /\ blk.year = 2024 /\ WeekStartOption = "monday"
                      => blk.startDate = DateUTC(2024, 0, 1)
               /\ blk.year = 2024 /\ WeekStartOption = "sunday"
                      => blk.startDate = DateUTC(2023, 11, 31)

\* a block of 2024 laid out from Monday has been rendered
StartDateWitness ==
    /\ Rendered
    /\ WeekStartOption = "monday"
    /\ \E blk \in RenderedBlocks :
          blk.year = 2024 /\ blk.startDate = DateUTC(2024, 0, 1)


(***************************************************************************)
(* Properties of the statistics (specification SpecStats).                 *)
(***************************************************************************)
\* the local day numbers that have an entry
ActiveDays == {LocalDayOf(entries[i].date) : i \in 1..Len(entries)}

IsRun(a, b) == a <= b /\ \A d \in a..b : d \in ActiveDays

LongestRun ==
    IF ActiveDays = {} THEN 0
    ELSE CHOOSE n \in 1..Cardinality(ActiveDays) :
            /\ \E a \in ActiveDays : IsRun(a, a + n - 1)
            /\ \A a \in ActiveDays : ~IsRun(a, a + n)

DayOfString(s) == UTCDayOf(ParseDateString(s))

ExampleDays ==
    {DayNumber(2024, 1, 1), DayNumber(2024, 1, 2), DayNumber(2024, 1, 3),
     DayNumber(2024, 1, 5)}

\* C4: calculateStreak returns the length of the longest run of consecutive
\* local calendar days that each have an entry, and startDate..endDate is
\* such a run of that length; the days 2024-01-01, -02, -03, -05 give
\* length 3 from 2024-01-01 to 2024-01-03.
StreakIsLongestRun ==
    stats.streak /= <<>> =>
        LET s == stats.streak[1]
        IN /\ s.length = LongestRun
           /\ entries = <<>> => s.startDate = null /\ s.endDate = null
           /\ entries /= <<>> =>
                 /\ IsRun(DayOfString(s.startDate), DayOfString(s.endDate))
                 /\ DayOfString(s.endDate) - DayOfString(s.startDate) + 1
                        = s.length
           /\ ActiveDays = ExampleDays =>
                 s = [length |-> 3, startDate |-> <<2024, 1, 1>>,
                      endDate |-> <<2024, 1, 3>>]

\* the streak of five entries on 2024-01-01, -02, -03 and -05, one of the
\* days twice, is computed
StreakWitness ==
    /\ stats.streak /= <<>>
    /\ ActiveDays = ExampleDays
    /\ Len(entries) = 5
    /\ stats.streak[1].length = 3

\* C5: calculateDaysActive returns the number of distinct local calendar
\* days among the entries, 0 for an empty list.
DaysActiveIsDistinctLocalDays ==
    stats.daysActive /= <<>> =>
        /\ stats.daysActive[1] = Cardinality(ActiveDays)
        /\ entries = <<>> => stats.daysActive[1] = 0

\* entries on 3 distinct local days, with 2 repeats of one day, are counted
DaysActiveWitness ==
    /\ stats.daysActive = <<3>>
    /\ Cardinality(ActiveDays) = 3
    /\ \E d \in ActiveDays :
          Cardinality({i \in 1..Len(entries) :
                          LocalDayOf(entries[i].date) = d}) = 3


(***************************************************************************)
(* Properties of the text put into the document (specification SpecText).  *)
(***************************************************************************)
ReservedChars == {"<", ">", "&", "'", "\""}

\* C6: at every place where the renderers insert user-supplied text
\* (displayName, username, item titles; link hrefs included), each of the
\* five characters < > & ' " of the text is replaced by its entity.
EveryInsertIsEscaped ==
    Rendered =>
        \A ins \in svg[1].inserts :
            /\ ins.text = escapeXml(ins.raw)
            /\ \A i \in 1..Len(ins.text) :
                  ins.text[i] \notin ReservedChars \ {"&"}

(***************************************************************************)
(* Properties of repeated calls (specification SpecClock).                 *)
(***************************************************************************)
\* C7: a call of generateSvg (or of generateMultiYearSvg) returns what the
\* first call with the same entries and options returned, whatever happened
\* between the calls.
RepeatedCallReturnsSameDocument ==
    svg /= <<>> => svg[1] = firstSvg[svg[1].kind][1]

(***************************************************************************)
(* Properties of the fallbacks (specification SpecTheme).                  *)
(***************************************************************************)
SameCallWithSunday ==
    IF svg[1].kind = "single"
    THEN generateSvg(entries, [options EXCEPT !.weekStart = <<"sunday">>])
    ELSE generateMultiYearSvg(entries,
                              [options EXCEPT !.weekStart = <<"sunday">>])

\* C8: rendering completes for every theme and weekStart; a theme other than
\* 'dark' and 'light' gives the dark palette; a weekStart other than
\* 'sunday' and 'monday' gives the document of 'sunday', and the command
\* line takes it as 'sunday'.
UnknownThemeAndWeekStartFallBack ==
    /\ svg /= <<>> =>
          /\ ~svg[1].threw
          /\ OptionOr(options.theme, "dark") \notin {"dark", "light"}
                => svg[1].theme = "dark"
          /\ WeekStartOption \notin {"sunday", "monday"}
                => svg[1] = SameCallWithSunday
    /\ cli.weekStartArg /= <<>>
          /\ cli.weekStartArg[1] \notin {"sunday", "monday"}
          => cli.weekStart = "sunday"

(***************************************************************************)
(* Properties of processTraktHistory (specification SpecHistory).          *)
(***************************************************************************)
\* the events that have a date, a known type and their nested records
WellFormed(item) ==
    /\ item.watched_at /= <<>>
    /\ \/ item.type = "episode" /\ item.episode /= <<>> /\ item.show /= <<>>
       \/ item.type = "movie" /\ item.movie /= <<>>

\* C9: processTraktHistory never throws: a malformed event (unparseable
\* watched_at, unknown type, missing nested record) is left out, and every
\* other event of the selected year is returned.
ProcessNeverThrows ==
    processed /= <<>> =>
        /\ ~processed[1].threw
        /\ Len(processed[1].entries) =
              Cardinality({i \in 1..Len(history) :
                  /\ WellFormed(history[i])
                  /\ WatchedYear(history[i]) = processed[1].year})

\* the number of events of the history whose local year is y
EventsOfYear(y) ==
    Cardinality({i \in 1..Len(history) :
        history[i].watched_at /= <<>>
            /\ getFullYear(history[i].watched_at[1]) = y})

\* C10: without a targetYear, on a non-empty history, the returned year is
\* a local calendar year whose event count is the maximum over the years
\* present in the history.
SelectedYearIsMostActive ==
    processed /= <<>> /\ ~processed[1].threw /\ targetYear = <<>>
        /\ history /= <<>> =>
        /\ processed[1].year /= NaN
        /\ \A y \in (MinYear - 1)..(MaxYear + 1) :
              EventsOfYear(processed[1].year) >= EventsOfYear(y)


\* the movie and episode events of the history whose local year is y
IsYearEvent(item, y) ==
    /\ item.watched_at /= <<>>
    /\ getFullYear(item.watched_at[1]) = y
    /\ item.type \in {"episode", "movie"}

YearEvents(y) ==
    LET Keep(item) == IsYearEvent(item, y) IN SelectSeq(history, Keep)

\* C11: when processTraktHistory returns, every returned entry has a watch
\* date whose local calendar year is the returned year, and the movie and
\* episode events of that year in the input appear in entries exactly once,
\* in input order.
EntriesAreTheYearEventsInOrder ==
    processed /= <<>> /\ ~processed[1].threw =>
        LET r == processed[1]
            expected == YearEvents(r.year)
        IN /\ \A k \in 1..Len(r.entries) :
                 getFullYear(r.entries[k].date) = r.year
           /\ Len(r.entries) = Len(expected)
           /\ \A k \in 1..Len(expected) :
                 /\ r.entries[k].date = expected[k].watched_at[1]
                 /\ r.entries[k].type = expected[k].type
                 /\ r.entries[k].title =
                       (IF expected[k].type = "movie"
                        THEN expected[k].movie[1].title
                        ELSE expected[k].show[1].title)

\* a call has returned two entries of different kinds and left out an event
\* of another year
EntriesWitness ==
    /\ processed /= <<>>
    /\ ~processed[1].threw
    /\ Len(history) = 3
    /\ Len(processed[1].entries) = 2
    /\ processed[1].entries[1].type /= processed[1].entries[2].type
    /\ \E i \in 1..3 :
          /\ history[i].watched_at /= <<>>
          /\ getFullYear(history[i].watched_at[1]) /= processed[1].year


(***************************************************************************)
(* SpecColor: the two colour schemes on any count, thresholds and maxCount.*)
(***************************************************************************)
Thresholds == {<<>>} \cup {<<n>> : n \in 0..MaxCount}

InitColor ==
    /\ Idle
    /\ tz = 0
    /\ now = Noon
    /\ entries = <<>>
    /\ options = DefaultOptions
    /\ \E count \in 0..(MaxCount + 1), maxCount \in 0..MaxCount,
          p25 \in Thresholds, p50 \in Thresholds, p75 \in Thresholds,
          p90 \in Thresholds :
          color = [count |-> count,
                   stats |-> [p25 |-> p25, p50 |-> p50, p75 |-> p75,
                              p90 |-> p90],
                   maxCount |-> maxCount,
                   intensity |-> <<>>,
                   level |-> <<>>]

CallCalculateColorIntensity ==
    /\ color.intensity = <<>>
    /\ color' = [color EXCEPT
                   !.intensity = <<calculateColorIntensity(color.count,
                                                            color.stats)>>]
    /\ UNCHANGED <<net, tz, now, fontFiles, embeddedFonts, history, targetYear,
                   processed, entries, options, stats, svg, firstSvg, cli>>

CallGetColor ==
    /\ color.level = <<>>
    /\ color' = [color EXCEPT
                   !.level = <<GetColorLevel(color.count, color.maxCount)>>]
    /\ UNCHANGED <<net, tz, now, fontFiles, embeddedFonts, history, targetYear,
                   processed, entries, options, stats, svg, firstSvg, cli>>

NextColor == CallCalculateColorIntensity \/ CallGetColor

SpecColor == InitColor /\ [][NextColor]_vars

\* C12: both colour schemes return a palette level in 0..4 for every
\* non-negative count and every thresholds or maxCount, and level 0 whenever
\* the count is 0.
ColourLevelsAreInPalette ==
    /\ color.intensity /= <<>> =>
          /\ color.intensity[1] \in 0..4
          /\ color.count = 0 => color.intensity[1] = 0
    /\ color.level /= <<>> =>
          /\ color.level[1] \in 0..4
          /\ color.count = 0 => color.level[1] = 0

\* both schemes have been applied to a count above maxCount and above every
\* threshold
ColourWitness ==
    /\ color.intensity = <<4>>
    /\ color.level = <<4>>
    /\ color.maxCount > 0
    /\ color.count > color.maxCount
    /\ color.stats.p90 /= <<>>
    /\ color.count > color.stats.p90[1]


(***************************************************************************)
(* SpecLayout: the three renderers on every year of a longer range, with   *)
(* no entry or with one entry that has a long title.                       *)
(***************************************************************************)
LongTitle == [i \in 1..MaxTitleLen |-> "a"]

InitLayout ==
    /\ Idle
    /\ NoCalls
    /\ tz \in TZOffsets
    /\ now = Noon
    /\ \E y \in LayoutYears, ws \in {"sunday", "monday"} :
          /\ entries \in {<<>>, <<MovieEntry(DateUTC(y, 5, 15) + 12, LongTitle)>>}
          /\ \E dcs \in {<<>>, <<calculateDayCountStats(entries)>>} :
                options = [DefaultOptions EXCEPT !.year = <<y>>,
                                                 !.years = <<<<y>>>>,
                                                 !.weekStart = <<ws>>,
                                                 !.dayCountStats = dcs]

\* one call of generateSvg of standalone.js, with the itemsPerDay map built
\* from the entries
CallStandaloneGenerateSvg ==
    /\ svg = <<>>
    /\ svg' = <<standaloneGenerateSvg(entries, entries, options)>>
    /\ UNCHANGED <<net, color, tz, now, fontFiles, embeddedFonts, history,
                   targetYear, processed, entries, options, stats, firstSvg,
                   cli>>

NextLayout ==
    CallGenerateSvg \/ CallGenerateMultiYearSvg \/ CallStandaloneGenerateSvg

SpecLayout == InitLayout /\ [][NextLayout]_vars

\* the year blocks of the document: those of generateSvg and
\* generateMultiYearSvg, or the one layout of standalone.js
LayoutBlocks ==
    IF svg[1].kind = "standalone" THEN {svg[1]} ELSE RenderedBlocks

\* the matrix positions of a block that are displayed
Displayed(blk) ==
    IF svg[1].kind = "standalone"
    THEN {c \in DOMAIN blk.cells : blk.cells[c].opacity = 1}
    ELSE DOMAIN blk.cells

PositionDay(blk, c) == UTCDayOf(CellDate(blk.startDate, c[1], c[2]))

\* C13: for every year, weekStart and time-zone offset, the displayed cells
\* are exactly the days January 1 .. December 31 of the year, each once
\* (365, or 366 in a leap year): no position of an adjacent year is
\* displayed and no day of the year is missing.
DisplayedCellsAreTheYear ==
    Rendered =>
        \A blk \in LayoutBlocks :
            /\ {PositionDay(blk, c) : c \in Displayed(blk)} =
                  DayNumber(blk.year, 1, 1)..DayNumber(blk.year, 12, 31)
            /\ Cardinality(Displayed(blk)) =
                  (IF IsLeap(blk.year) THEN 366 ELSE 365)
            /\ \A c \in DOMAIN blk.grid :
                  Civil(PositionDay(blk, c))[1] /= blk.year
                      => c \notin Displayed(blk)

\* a leap year has been rendered west of UTC, from Monday, with positions
\* of both adjacent years in the matrix
DisplayedCellsWitness ==
    /\ Rendered
    /\ tz < 0
    /\ WeekStartOption = "monday"
    /\ \E blk \in LayoutBlocks :
          /\ IsLeap(blk.year)
          /\ Cardinality(Displayed(blk)) = 366
          /\ \E c \in DOMAIN blk.grid :
                Civil(PositionDay(blk, c))[1] = blk.year - 1
          /\ \E c \in DOMAIN blk.grid :
                Civil(PositionDay(blk, c))[1] = blk.year + 1

\* twice the right edge of the tooltip rectangle of a displayed position,
\* measured from the left edge of the document (twice, because standalone.js
\* centres the tooltip on the cell at half pixels)
TooltipRightEdge2(blk, c) ==
    IF svg[1].kind = "standalone"
    THEN 2 * 30 + blk.cells[c].tooltipX2 + 2 * blk.cells[c].tooltipWidth
    ELSE 2 * (GRID_OFFSET_X + blk.cells[c].tooltipX + blk.cells[c].tooltipWidth)

\* C14: for every displayed cell and every tooltip content, the right edge
\* of the tooltip rectangle (x-offset of the grid + tooltipX + tooltipWidth)
\* does not exceed the width of the document.
TooltipStaysInsideDocument ==
    Rendered =>
        \A blk \in LayoutBlocks : \A c \in Displayed(blk) :
            TooltipRightEdge2(blk, c) <= 2 * svg[1].width

\* the same bound for generateSvg and generateMultiYearSvg only
ClampedTooltipStaysInsideDocument ==
    (Rendered /\ svg[1].kind /= "standalone") => TooltipStaysInsideDocument

\* the drawn cells of a year block that carry the streak marker class
MarkedCells(blk) == {c \in DOMAIN blk.cells : blk.cells[c].streakCell}

\* the calendar date of the matrix position c lies in the streak's range
InStreakRange(blk, c) ==
    /\ blk.streak.length > 0
    /\ StrLE(blk.streak.startDate, Civil(PositionDay(blk, c)))
    /\ StrLE(Civil(PositionDay(blk, c)), blk.streak.endDate)

\* C15: a displayed cell carries the streak marker exactly when the streak
\* length is positive and the cell's calendar date lies between the
\* streak's start and end date; hence the number of marked cells of a year
\* equals the streak length computed for that year.
StreakMarkersMatchStreak ==
    Rendered =>
        \A blk \in RenderedBlocks :
            /\ \A c \in DOMAIN blk.cells :
                  blk.cells[c].streakCell <=> InStreakRange(blk, c)
            /\ Cardinality(MarkedCells(blk)) = blk.streak.length

\* the number of marked cells alone, for processes not west of UTC
StreakMarkerCountEastOfUTC ==
    (Rendered /\ tz >= 0) =>
        \A blk \in RenderedBlocks :
            Cardinality(MarkedCells(blk)) = blk.streak.length

(***************************************************************************)
(* SpecYears: generateMultiYearSvg on lists of several years, in any       *)
(* order, with entries in and around those years.                          *)
(***************************************************************************)
YearLists ==
    {<<a>> : a \in {MaxYear - 1, MaxYear}}
        \cup {<<MaxYear - 1, MaxYear>>, <<MaxYear, MaxYear - 1>>,
              <<MinYear, MaxYear, MaxYear - 1>>}

\* instants inside the last two years and at the turn between them
YearProbes ==
    {DateUTC(MaxYear - 1, 5, 15) + 12, DateUTC(MaxYear, 0, 1) + 3,
     DateUTC(MaxYear, 5, 15) + 12}

InitYears ==
    /\ Idle
    /\ NoCalls
    /\ tz \in TZOffsets
    /\ now = Noon
    /\ entries = <<>>
    /\ \E ys \in YearLists, ws \in {"sunday", "monday"} :
          options = [DefaultOptions EXCEPT !.years = <<ys>>,
                                           !.weekStart = <<ws>>]

AddYearEntry ==
    /\ svg = <<>>
    /\ Len(entries) < MaxEntries
    /\ \E p \in YearProbes :
          entries' = Append(entries, MovieEntry(p, <<"a">>))
    /\ UNCHANGED <<net, color, tz, now, fontFiles, embeddedFonts, history, targetYear,
                   processed, options, stats, svg, firstSvg, cli>>

NextYears == AddYearEntry \/ CallGenerateMultiYearSvg

SpecYears == InitYears /\ [][NextYears]_vars

\* what the claim lists of a year's pass
YearFacets(blk) ==
    [startDate |-> blk.startDate, totalWeeks |-> blk.totalWeeks,
     grid |-> blk.grid, maxCount |-> blk.maxCount, streak |-> blk.streak,
     daysActive |-> blk.daysActive]

\* the pass of year y when it is the only year of the list and the entries
\* of all other years are taken away
YearAlone(y) ==
    LET OfYear(e) == getFullYear(e.date) = y
    IN generateMultiYearSvg(SelectSeq(entries, OfYear),
                            [options EXCEPT !.years = <<<<y>>>>]).blocks[1]

\* C16: in generateMultiYearSvg the startDate, totalWeeks, grid, maxCount,
\* streak and days-active of a year depend only on the year, weekStart and
\* the entries of that year: they are those of the year rendered alone from
\* its own entries, whatever other years are in the list and in whatever
\* order; only the vertical offset of the block depends on its rank.
YearPassIsIndependent ==
    (Rendered /\ svg[1].kind = "multi") =>
        \A i \in 1..Len(svg[1].blocks) :
            /\ YearFacets(svg[1].blocks[i]) =
                  YearFacets(YearAlone(svg[1].blocks[i].year))
            /\ svg[1].yearOffsets[i] =
                  HEADER_HEIGHT + 40 + (i - 1) * YEAR_HEIGHT

\* three years given out of order have been rendered, the later two with
\* entries, so that the middle block is drawn below another one
YearPassWitness ==
    /\ Rendered
    /\ svg[1].kind = "multi"
    /\ Len(svg[1].blocks) = 3
    /\ options.years[1][1] < options.years[1][2]
    /\ svg[1].blocks[1].totalItems > 0
    /\ svg[1].blocks[2].totalItems > 0
    /\ svg[1].yearOffsets[2] > svg[1].yearOffsets[1]

\* no entry of the list falls in the selected year (by the local year, as
\* the filter of the renderers decides)
NoEntryInSelectedYear == EntriesOfYear(options.year[1]) = {}

\* C17: when no entry falls in the selected year, the rendering completes
\* without an error, every grid cell is 0, every displayed cell has count 0
\* and palette level 0, days active is 0 and the streak is
\* {length: 0, startDate: null, endDate: null}, the value calculateStreak
\* returns for an empty or missing list.
EmptyYearRendersAllZero ==
    (svg /= <<>> /\ NoEntryInSelectedYear) =>
        /\ ~svg[1].threw
        /\ calculateStreak(<<>>) =
              [length |-> 0, startDate |-> null, endDate |-> null]
        /\ \A blk \in RenderedBlocks :
              /\ blk.grid = [c \in DOMAIN blk.grid |-> 0]
              /\ \A c \in DOMAIN blk.cells :
                    blk.cells[c].count = 0 /\ blk.cells[c].level = 0
              /\ ~\E c \in DOMAIN blk.cells : blk.cells[c].streakCell
              /\ blk.maxCount = 0
              /\ blk.totalItems = 0
              /\ blk.daysActive = 0
              /\ blk.streak = calculateStreak(<<>>)

\* a year has been rendered from a list that holds entries, all of them
\* outside the selected year, one only by the local time west of UTC
EmptyYearWitness ==
    /\ Rendered
    /\ NoEntryInSelectedYear
    /\ Len(entries) = MaxEntries
    /\ tz < 0
    /\ \E i \in 1..Len(entries) :
          Civil(UTCDayOf(entries[i].date))[1] = options.year[1]
    /\ \A blk \in RenderedBlocks : DOMAIN blk.cells /= {}

\* the inclusive number of days from the shifted startDate of a block
\* through December 31 of its year
InclusiveDays(blk) ==
    (DateUTC(blk.year, 11, 31) - blk.startDate) \div HoursPerDay + 1

\* C19: for every year and weekStart, totalWeeks * 7 >= totalDays and
\* (totalWeeks - 1) * 7 < totalDays, where totalDays is the inclusive number
\* of days from the shifted startDate through December 31; consequently
\* totalWeeks is 53 or 54.
TotalWeeksCoversTotalDays ==
    Rendered =>
        \A blk \in LayoutBlocks :
            /\ blk.totalWeeks * 7 >= InclusiveDays(blk)
            /\ (blk.totalWeeks - 1) * 7 < InclusiveDays(blk)
            /\ blk.totalWeeks \in {53, 54}

\* the same for generateSvg and generateMultiYearSvg only, whose totalDays
\* is the inclusive number of days
TotalWeeksCoversTotalDaysOfFetcher ==
    (Rendered /\ svg[1].kind /= "standalone") =>
        /\ TotalWeeksCoversTotalDays
        /\ \A blk \in LayoutBlocks : blk.totalDays = InclusiveDays(blk)

(***************************************************************************)
(* main() of cli.js, one step for the argument loop and one for each       *)
(* request it awaits.  The answers of the network are fixed when the run   *)
(* starts: which collaborators fail, and what the others return.           *)
(***************************************************************************)
ProfileAnswers ==
    {[ok |-> FALSE, name |-> <<>>, avatar |-> <<>>, username |-> <<"u">>],
     [ok |-> TRUE, name |-> <<>>, avatar |-> <<>>, username |-> <<"u">>],
     [ok |-> TRUE, name |-> <<(<<"n">>)>>, avatar |-> <<(<<"h">>)>>,
      username |-> <<"u">>]}

StatsAnswers ==
    {[ok |-> FALSE, movies |-> <<>>, episodes |-> <<>>, followers |-> <<>>],
     [ok |-> TRUE, movies |-> <<5>>, episodes |-> <<>>, followers |-> <<2>>]}

ImageAnswers ==
    {[ok |-> FALSE, dataUri |-> null], [ok |-> TRUE, dataUri |-> <<"d">>]}

\* the history of the user on the server, newest first, one item a page;
\* the last page is of the year before
HistoryPages ==
    [k \in 1..MaxPages |->
        <<RawItem(<<IF k < MaxPages THEN Noon - HoursPerDay * k
                    ELSE DateUTC(MaxYear - 1, 5, 15) + 12>>,
                  "movie", <<>>, <<>>, <<MovieRecord>>)>>]

Worlds ==
    [apiKey : {TRUE}, profile : ProfileAnswers, stats : StatsAnswers,
     avatar : ImageAnswers, logo : ImageAnswers, failsAt : 0..MaxPages,
     pages : {HistoryPages}]

AllUp ==
    [apiKey |-> TRUE,
     profile |-> [ok |-> TRUE, name |-> <<(<<"n">>)>>, avatar |-> <<(<<"h">>)>>,
                  username |-> <<"u">>],
     stats |-> [ok |-> TRUE, movies |-> <<5>>, episodes |-> <<>>,
                followers |-> <<2>>],
     avatar |-> [ok |-> TRUE, dataUri |-> <<"d">>],
     logo |-> [ok |-> TRUE, dataUri |-> <<"d">>],
     failsAt |-> 0,
     pages |-> HistoryPages]

AllDown ==
    [apiKey |-> TRUE,
     profile |-> [ok |-> FALSE, name |-> <<>>, avatar |-> <<>>,
                  username |-> <<"u">>],
     stats |-> [ok |-> FALSE, movies |-> <<>>, episodes |-> <<>>,
                followers |-> <<>>],
     avatar |-> [ok |-> FALSE, dataUri |-> null],
     logo |-> [ok |-> FALSE, dataUri |-> null],
     failsAt |-> 1,
     pages |-> HistoryPages]

UserArg == WordArg("u", <<"u">>)

\* main() is entered with the arguments args
StartRun(args, world) ==
    net = [pc |-> "parse", args |-> args, world |-> world, username |-> null,
           years |-> <<>>, weekStart |-> "sunday", yearsSpecified |-> FALSE,
           exportPng |-> FALSE, profile |-> <<>>, userStats |-> <<>>,
           profileImageBase64 |-> null, logoBase64 |-> null, page |-> 1,
           renderer |-> "none"]

\* the argument loop, the sort of the years and the two checks that exit
MainParseArguments ==
    /\ net.pc = "parse"
    /\ LET st == ParseArguments(net.args, 1,
                    [username |-> null, years |-> DefaultYears(now),
                     weekStart |-> "sunday", yearsSpecified |-> FALSE,
                     exportPng |-> FALSE])
       IN net' = [net EXCEPT !.username = st.username,
                             !.years = SortDescending(st.years),
                             !.weekStart = st.weekStart,
                             !.yearsSpecified = st.yearsSpecified,
                             !.exportPng = st.exportPng,
                             !.pc = IF st.username = null \/ ~net.world.apiKey
                                    THEN "exit" ELSE "profile"]
    /\ UNCHANGED <<color, tz, now, fontFiles, embeddedFonts, history, targetYear,
                   processed, entries, options, stats, svg, firstSvg, cli>>

MainFetchProfileData ==
    /\ net.pc = "profile"
    /\ net' = [net EXCEPT !.profile =
                               fetchProfileData(net.username, net.world.profile),
                          !.pc = "stats"]
    /\ UNCHANGED <<color, tz, now, fontFiles, embeddedFonts, history, targetYear,
                   processed, entries, options, stats, svg, firstSvg, cli>>

MainFetchUserStats ==
    /\ net.pc = "stats"
    /\ net' = [net EXCEPT !.userStats = fetchUserStats(net.world.stats),
                          !.pc = "avatar"]
    /\ UNCHANGED <<color, tz, now, fontFiles, embeddedFonts, history, targetYear,
                   processed, entries, options, stats, svg, firstSvg, cli>>

\* profileImage ? await imageToBase64(profileImage) : null
MainFetchAvatar ==
    /\ net.pc = "avatar"
    /\ net' = [net EXCEPT !.profileImageBase64 =
                               IF net.profile.profileImage /= null
                               THEN imageToBase64(net.world.avatar) ELSE null,
                          !.pc = "logo"]
    /\ UNCHANGED <<color, tz, now, fontFiles, embeddedFonts, history, targetYear,
                   processed, entries, options, stats, svg, firstSvg, cli>>

MainFetchLogo ==
    /\ net.pc = "logo"
    /\ net' = [net EXCEPT !.logoBase64 = imageToBase64(net.world.logo),
                          !.pc = "history"]
    /\ UNCHANGED <<color, tz, now, fontFiles, embeddedFonts, history, targetYear,
                   processed, entries, options, stats, svg, firstSvg, cli>>

\* fetchTraktHistory(username, contentType, minYear): one request
MainFetchHistoryPage ==
    /\ net.pc = "history"
    /\ LET r == FetchHistoryPage(net.world.pages, net.world.failsAt,
                                 MinOfYears(net.years), net.page, history)
       IN /\ history' = r.allHistory
          /\ net' = [net EXCEPT !.page = r.page,
                                !.pc = IF r.done THEN "render" ELSE "history"]
    /\ UNCHANGED <<color, tz, now, fontFiles, embeddedFonts, targetYear,
                   processed, entries, options, stats, svg, firstSvg, cli>>

\* the entries of the years, then the two documents with the renderer the
\* number of years selects: the dark one at "render", the light one (the same
\* call with theme: 'light') at "light"; an exception ends the run in the
\* catch of main()
MainRender ==
    /\ net.pc \in {"render", "light"}
    /\ LET all == IF net.pc = "render"
                  THEN ProcessYears(history, net.years,
                                    [threw |-> FALSE, entries |-> <<>>])
                  ELSE [threw |-> FALSE, entries |-> entries]
       IN IF all.threw
          THEN /\ net' = [net EXCEPT !.pc = "failed"]
               /\ UNCHANGED <<entries, options, svg, embeddedFonts, firstSvg>>
          ELSE /\ entries' = all.entries
               /\ options' = IF net.pc = "render"
                             THEN SvgOptions(net, "dark")
                             ELSE [options EXCEPT !.theme = <<"light">>]
               /\ firstSvg' = IF net.pc = "render" THEN firstSvg
                              ELSE IF Len(net.years) > 1
                                   THEN [firstSvg EXCEPT !.multi = svg]
                                   ELSE [firstSvg EXCEPT !.single = svg]
               /\ svg' = <<IF Len(net.years) > 1
                           THEN generateMultiYearSvg(entries', options')
                           ELSE generateSvg(entries', options')>>
               /\ embeddedFonts' = getEmbeddedFonts[2]
               /\ net' = [net EXCEPT
                             !.pc = IF svg'[1].threw THEN "failed"
                                    ELSE IF net.pc = "render" THEN "light"
                                    ELSE "done",
                             !.renderer = IF Len(net.years) > 1
                                          THEN "generateMultiYearSvg"
                                          ELSE "generateSvg"]
    /\ UNCHANGED <<color, tz, now, fontFiles, history, targetYear, processed,
                   stats, cli>>

\* the dark document of a run that has rendered both (the light one is svg)
DarkDocument ==
    IF Len(net.years) > 1 THEN firstSvg.multi[1] ELSE firstSvg.single[1]

NextMain ==
    \/ MainParseArguments
    \/ MainFetchProfileData
    \/ MainFetchUserStats
    \/ MainFetchAvatar
    \/ MainFetchLogo
    \/ MainFetchHistoryPage
    \/ MainRender

(***************************************************************************)
(* SpecFetch: a run of main() for one year and for two, with every         *)
(* combination of failing collaborators.                                   *)
(***************************************************************************)
FetchArgLists ==
    {<<UserArg>>,
     <<UserArg, FlagArg("y"), YearListArg(<<MaxYear - 1, MaxYear>>)>>}

InitFetch ==
    /\ Quiet
    /\ NoCalls
    /\ tz = 0
    /\ now = Noon
    /\ entries = <<>>
    /\ options = DefaultOptions
    /\ \E args \in FetchArgLists, world \in Worlds : StartRun(args, world)

SpecFetch == InitFetch /\ [][NextMain]_vars

\* the run has got past the step pc
RunIsPast(pc) ==
    CASE pc = "profile" ->
            net.pc \in {"stats", "avatar", "logo", "history", "render", "light", "done"}
      [] pc = "stats" ->
            net.pc \in {"avatar", "logo", "history", "render", "light", "done"}
      [] pc = "avatar" -> net.pc \in {"logo", "history", "render", "light", "done"}
      [] pc = "logo" -> net.pc \in {"history", "render", "light", "done"}
      [] pc = "history" -> net.pc \in {"render", "light", "done"}

\* the items of the pages 1 .. n of the server
RECURSIVE ItemsOfPages(_)
ItemsOfPages(n) ==
    IF n = 0 THEN <<>> ELSE ItemsOfPages(n - 1) \o HistoryPages[n]

\* C18: no failure of a network collaborator reaches the caller as an
\* exception: the run never ends in the catch of main(); a failed
\* fetchProfileData has returned {displayName: username, profileImage: null},
\* a failed fetchUserStats all-zero stats, a failed imageToBase64 null, a
\* failed fetchTraktHistory the items of the pages fetched before the
\* failure; and the document of the run has no avatar image when the
\* avatar is null and no logo when the logo is null.
NetworkFailuresAreAbsorbed ==
    /\ net.pc /= "failed"
    /\ (RunIsPast("profile") /\ ~net.world.profile.ok) =>
          /\ net.profile.displayName = net.username
          /\ net.profile.profileImage = null
    /\ (RunIsPast("stats") /\ ~net.world.stats.ok) =>
          net.userStats =
              [moviesAllTime |-> 0, episodesAllTime |-> 0, followers |-> 0]
    /\ (RunIsPast("avatar") /\ ~net.world.avatar.ok) =>
          net.profileImageBase64 = null
    /\ (RunIsPast("logo") /\ ~net.world.logo.ok) => net.logoBase64 = null
    /\ (RunIsPast("history") /\ net.world.failsAt > 0
          /\ net.page = net.world.failsAt) =>
          history = ItemsOfPages(net.world.failsAt - 1)
    /\ net.pc = "done" =>
          /\ Rendered
          /\ ~DarkDocument.threw
          /\ net.profileImageBase64 = null =>
                ~svg[1].avatar /\ ~DarkDocument.avatar
          /\ net.logoBase64 = null => ~svg[1].logo /\ ~DarkDocument.logo

\* a run for two years has ended with a document although the profile, the
\* statistics and the logo failed and the history failed at its second page
NetworkFailuresWitness ==
    /\ net.pc = "done"
    /\ ~net.world.profile.ok
    /\ ~net.world.stats.ok
    /\ ~net.world.logo.ok
    /\ net.world.failsAt = 2
    /\ Len(history) = 1
    /\ Len(net.years) = 2
    /\ Rendered
    /\ ~svg[1].avatar
    /\ ~svg[1].logo

(***************************************************************************)
(* SpecCli: runs of main() on command lines with and without years, at     *)
(* noon in summer and two hours after the turn of the year (UTC), in every *)
(* time zone.                                                              *)
(***************************************************************************)
MondayArg == WordArg("monday", <<"m", "o", "n", "d", "a", "y">>)

ArgLists ==
    {<<>>,
     <<UserArg>>,
     <<UserArg, FlagArg("w"), MondayArg>>,
     <<FlagArg("weekstart"), MondayArg, UserArg>>,
     <<UserArg, FlagArg("p")>>,
     <<UserArg, FlagArg("x"), FlagArg("t"), WordArg("movies", <<"m">>)>>,
     <<UserArg, FlagArg("w"), YearArg(MaxYear - 1)>>,
     <<YearArg(MaxYear - 1)>>,
     <<UserArg, FlagArg("y")>>,
     <<UserArg, FlagArg("y"), YearArg(MaxYear - 1)>>,
     <<UserArg, YearArg(MaxYear - 1)>>,
     <<UserArg, FlagArg("years"), YearListArg(<<MaxYear - 1, MaxYear>>)>>,
     <<UserArg, YearListArg(<<MaxYear, MaxYear - 1>>)>>,
     <<UserArg, FlagArg("y"), YearArg(MaxYear), YearArg(MaxYear - 1)>>}

InitCli ==
    /\ Quiet
    /\ NoCalls
    /\ tz \in TZOffsets
    /\ now \in {Noon, DateUTC(MaxYear, 0, 1) + 2}
    /\ entries = <<>>
    /\ options = DefaultOptions
    /\ \E args \in ArgLists,
          world \in {AllUp, AllDown, [AllUp EXCEPT !.apiKey = FALSE]} :
          StartRun(args, world)

SpecCli == InitCli /\ [][NextMain]_vars

\* the command line has no year flag and no argument that reads as a year
\* or a list of years
NoYearArgument(args) ==
    \A i \in 1..Len(args) :
        /\ ~(args[i].dash /\ args[i].flag \in {"y", "year", "years"})
        /\ ~(~args[i].dash /\ (args[i].comma \/ args[i].ints /= <<>>))

\* a document of one year block, of the single-year renderer
IsSingleYearDocument(doc, year) ==
    /\ ~doc.threw
    /\ doc.kind = "single"
    /\ Len(doc.blocks) = 1
    /\ doc.blocks[1].year = year

\* C20: when the CLI is run with a username and no year flag or positional
\* year, exactly one year is rendered, the current calendar year, and it is
\* rendered by the single-year renderer with that year given.
DefaultYearIsCurrentYear ==
    (net.pc \notin {"none", "parse", "exit", "failed"}
        /\ NoYearArgument(net.args)) =>
        /\ net.years = <<getFullYear(now)>>
        /\ net.pc = "done" =>
              /\ net.renderer = "generateSvg"
              /\ options.year = <<getFullYear(now)>>
              /\ IsSingleYearDocument(svg[1], getFullYear(now))
              /\ IsSingleYearDocument(DarkDocument, getFullYear(now))

\* a run without any year argument has ended two hours after the turn of
\* the year (UTC) west of UTC, where the current year is still the old one:
\* the history holds more items of the new year than of the old one, and
\* the old one is rendered
DefaultYearWitness ==
    /\ net.pc = "done"
    /\ NoYearArgument(net.args)
    /\ Len(net.args) > 1
    /\ net.weekStart = "monday"
    /\ tz < 0
    /\ getFullYear(now) = MaxYear - 1
    /\ Len(history) = MaxPages
    /\ Len(entries) = 1
    /\ IsSingleYearDocument(svg[1], MaxYear - 1)


(***************************************************************************)
(* The tie-break of the year selection (specification SpecHistory).        *)
(***************************************************************************)
\* the years of the history whose event count is the highest one
TiedYears ==
    {y \in (MinYear - 1)..(MaxYear + 1) :
        /\ EventsOfYear(y) > 0
        /\ \A z \in (MinYear - 1)..(MaxYear + 1) :
              EventsOfYear(y) >= EventsOfYear(z)}

\* the tied year that occurs first in the history
FirstEncounteredTiedYear ==
    LET i == CHOOSE k \in 1..Len(history) :
                 /\ WatchedYear(history[k]) \in TiedYears
                 /\ \A j \in 1..(k - 1) : WatchedYear(history[j]) \notin TiedYears
    IN WatchedYear(history[i])

\* C21: when processTraktHistory is called without a targetYear and several
\* years share the highest event count, the selected year is the current
\* calendar year if it is among the tied years, otherwise the tied year
\* first encountered in the history.
TieBreakPrefersCurrentYearThenFirst ==
    (/\ processed /= <<>>
     /\ targetYear = <<>>
     /\ \A i \in 1..Len(history) : history[i].watched_at /= <<>>
     /\ Cardinality(TiedYears) > 1) =>
        processed[1].year =
            (IF getFullYear(now) \in TiedYears THEN getFullYear(now)
             ELSE FirstEncounteredTiedYear)


(***************************************************************************)
(* The linear colour scheme in the rendered blocks (specification Spec).   *)
(***************************************************************************)
\* the largest count displayed by a cell of the block, 0 without any cell
LargestDisplayedCount(blk) ==
    LET counts == {blk.cells[c].count : c \in DOMAIN blk.cells} \cup {0}
    IN CHOOSE m \in counts : \A n \in counts : n <= m

\* C22: in the linear scheme of generateSvg and generateMultiYearSvg, the
\* level of a displayed cell is min(ceil(count/maxCount*4), 4) where maxCount
\* is the largest count displayed by any cell of that year; hence every
\* displayed cell with count >= 1 has level >= 1.
LevelFollowsLargestDisplayedCount ==
    Rendered =>
        \A blk \in RenderedBlocks :
            LET m == LargestDisplayedCount(blk)
            IN \A c \in DOMAIN blk.cells :
                  /\ blk.cells[c].level =
                        (IF blk.cells[c].count = 0 THEN 0
                         ELSE Min(CeilDiv(blk.cells[c].count * 4, m), 4))
                  /\ blk.cells[c].count >= 1 => blk.cells[c].level >= 1


(***************************************************************************)
(* The month labels (specification SpecLayout).                            *)
(***************************************************************************)
\* C23: for every year and weekStart, all 12 month labels are emitted, the
\* label of month M is at the column that holds the 1st of M, January is at
\* column 0, and the label columns are strictly increasing from January to
\* December.
MonthLabelsAreAtTheFirstOfMonth ==
    Rendered /\ svg[1].kind /= "standalone" =>
        \A blk \in RenderedBlocks :
            LET labels == blk.monthLabels
            IN /\ Len(labels) = 12
               /\ \A m \in 1..12 :
                     /\ labels[m].month = m - 1
                     /\ labels[m].x = labels[m].weekIndex * 17
                     /\ \E day \in 0..6 :
                           /\ <<day, labels[m].weekIndex>> \in DOMAIN blk.cells
                           /\ Civil(PositionDay(blk, <<day, labels[m].weekIndex>>))
                                 = <<blk.year, m, 1>>
               /\ labels[1].weekIndex = 0
               /\ \A m \in 1..11 : labels[m].weekIndex < labels[m + 1].weekIndex

\* a year whose January 1 is in the last row of column 0 has been rendered
\* from Monday, with December labelled at column 48
MonthLabelsWitness ==
    /\ Rendered
    /\ svg[1].kind /= "standalone"
    /\ WeekStartOption = "monday"
    /\ \E blk \in RenderedBlocks :
          /\ blk.startDate = DateUTC(blk.year, 0, 1) - 6 * HoursPerDay
          /\ Len(blk.monthLabels) = 12
          /\ blk.monthLabels[1].weekIndex = 0
          /\ blk.monthLabels[12].weekIndex = 48


(***************************************************************************)
(* The tooltip of a displayed cell (specification Spec).                   *)
(***************************************************************************)
\* the entries of a block's year whose local date is the date of the cell,
\* oldest first
CellItems(blk, cell) ==
    LET OfCell(e) == getFullYear(e.date) = blk.year
                         /\ getLocalDateString(e.date) = cell.date
    IN SortByTime(SelectSeq(entries, OfCell))

\* the item line the claim describes
DescribedLine(item) ==
    <<"*", " ">> \o item.title
        \o (IF item.type = "episode" /\ item.episode /= null
            THEN <<" ">> \o item.episode ELSE <<>>)
        \o <<" ", "(">> \o NumberString(item.year) \o <<")">>

\* C24: for every displayed cell, the tooltip header states N = the number
\* of item lines that follow it, uses the word 'item' exactly when N = 1 and
\* 'items' otherwise, names the weekday, day, month and year of the cell's
\* own calendar date (the date its items are looked up by), and each item
\* line is the described line of an entry of that date.
TooltipHeaderDescribesTheCell ==
    Rendered =>
        \A blk \in RenderedBlocks :
            \A c \in DOMAIN blk.cells :
                LET cell == blk.cells[c]
                    items == CellItems(blk, cell)
                IN /\ cell.title.count = Len(cell.lines)
                   /\ (cell.title.word = "item") <=> (Len(cell.lines) = 1)
                   /\ cell.title.word \in {"item", "items"}
                   /\ <<cell.title.year, cell.title.monthName + 1,
                        cell.title.dayNum>> = cell.date
                   /\ cell.title.dayName =
                         DayOfWeek(DayNumber(cell.date[1], cell.date[2],
                                             cell.date[3]))
                   /\ Len(cell.lines) = Len(items)
                   /\ \A i \in 1..Len(items) :
                         cell.lines[i] = escapeXml(DescribedLine(items[i]))

\* the same for the documents of generateSvg only
SingleYearTooltipHeaderDescribesTheCell ==
    (Rendered /\ svg[1].kind = "single") => TooltipHeaderDescribesTheCell


(***************************************************************************)
(* The weekly distribution (specification Spec).                           *)
(***************************************************************************)
\* the first letters of Sunday .. Saturday
WeekdayLetters == <<"S", "M", "T", "W", "T", "F", "S">>

\* C25: the weekly distribution counts the entries of the year per local
\* day of the week with index 0 = Sunday whatever the weekStart, its seven
\* counts sum to the number of entries of the year, and position i of the
\* bar chart shows the count of weekday i under sunday start and of weekday
\* (i+1) mod 7 under monday start, under the letter of that weekday.
WeeklyDistributionIsPerLocalWeekday ==
    Rendered =>
        \A blk \in RenderedBlocks :
            LET OnWeekday(d) ==
                    {k \in EntriesOfYear(blk.year) :
                        DayOfWeek(LocalDayOf(entries[k].date)) = d}
            IN /\ \A d \in 0..6 : blk.weekly[d] = Cardinality(OnWeekday(d))
               /\ GridSum(blk.weekly) = Cardinality(EntriesOfYear(blk.year))
               /\ \A i \in 0..6 :
                     LET d == IF WeekStartOption = "monday" THEN (i + 1) % 7
                              ELSE i
                     IN /\ blk.weeklyBars[i].count = Cardinality(OnWeekday(d))
                        /\ blk.weeklyBars[i].day = WeekdayLetters[d + 1]

\* a year has been rendered from Monday with an entry on a local Sunday,
\* which the last bar shows
WeeklyDistributionWitness ==
    /\ Rendered
    /\ WeekStartOption = "monday"
    /\ \E blk \in RenderedBlocks :
          /\ blk.weekly[0] >= 1
          /\ blk.weeklyBars[6].count = blk.weekly[0]
          /\ blk.weeklyBars[0].count = 0


(***************************************************************************)
(* SpecPages: fetchTraktHistory against any server.  A server is what it   *)
(* answers to the request for page n: the pages it holds, what it answers   *)
(* beyond them (an empty page, or its last page again), the request that    *)
(* fails (0: none) and the x-pagination-page-count header as parseInt reads *)
(* it (<<>>: NaN, the header is missing or not a number).                   *)
(***************************************************************************)
MaxServerPages == 2
MaxRequests == 5

\* page >= pageCount, false when pageCount is NaN
JsGe(a, b) == b /= <<>> /\ a >= b[1]

\* the loop turn with the early stop on a page that has SOME item before
\* targetYear
HistoryTurnStopsOnSome(response, target, page, allHistory) ==
    IF ~response.ok
    THEN [done |-> TRUE, page |-> page, pushed |-> FALSE,
          allHistory |-> allHistory]
    ELSE IF /\ Truthy(target)
            /\ \E i \in 1..Len(response.data) :
                  /\ WatchedYear(response.data[i]) /= NaN
                  /\ WatchedYear(response.data[i]) < target[1]
    THEN [done |-> TRUE, page |-> page, pushed |-> FALSE,
          allHistory |-> allHistory]
    ELSE LET last == JsGe(page, response.pageCount) \/ Len(response.data) = 0
         IN [done |-> last,
             page |-> IF last THEN page ELSE page + 1,
             pushed |-> TRUE,
             allHistory |-> allHistory \o response.data]

\* one turn of the loop of fetchTraktHistory on the response to the request
\* for the page: a failed request ends the loop in the catch
HistoryTurn(response, target, page, allHistory) ==
    IF ~response.ok
    THEN [done |-> TRUE, page |-> page, pushed |-> FALSE,
          allHistory |-> allHistory]
    ELSE IF /\ Truthy(target)
            /\ \A i \in 1..Len(response.data) :
                  /\ WatchedYear(response.data[i]) /= NaN
                  /\ WatchedYear(response.data[i]) < target[1]
    THEN [done |-> TRUE, page |-> page, pushed |-> FALSE,
          allHistory |-> allHistory]
    ELSE LET last == JsGe(page, response.pageCount) \/ Len(response.data) = 0
         IN [done |-> last,
             page |-> IF last THEN page ELSE page + 1,
             pushed |-> TRUE,
             allHistory |-> allHistory \o response.data]

\* what the server answers to the request for the page
ServerResponse(server, page) ==
    [ok |-> page /= server.failsAt,
     data |-> IF page <= Len(server.pages) THEN server.pages[page]
              ELSE IF server.rest = "repeat" /\ server.pages /= <<>>
              THEN server.pages[Len(server.pages)]
              ELSE <<>>,
     pageCount |-> server.pageCount]

MovieItemAt(t) == RawItem(<<t>>, "movie", <<>>, <<>>, <<MovieRecord>>)

\* pages of items in summer of MaxYear, two hours after and two hours before
\* the turn of the year (UTC), and in summer of the year before
ServerPageSet ==
    LET a == MovieItemAt(Noon)
        b == MovieItemAt(DateUTC(MaxYear, 0, 1) + 2)
        c == MovieItemAt(DateUTC(MaxYear, 0, 1) - 2)
        d == MovieItemAt(DateUTC(MaxYear - 1, 5, 15))
    IN {<<>>, <<a>>, <<c>>, <<a, b>>, <<b, c>>, <<c, d>>, <<d, a>>}

RECURSIVE PageLists(_)
PageLists(n) ==
    IF n = 0 THEN {<<>>}
    ELSE PageLists(n - 1)
           \cup {Append(l, pg) : l \in {x \in PageLists(n - 1) : Len(x) = n - 1},
                                 pg \in ServerPageSet}

Servers ==
    [pages : PageLists(MaxServerPages),
     rest : {"empty", "repeat"},
     failsAt : 0..MaxServerPages,
     pageCount : {<<>>} \cup {<<n>> : n \in 0..(MaxServerPages + 1)}]

InitPages ==
    /\ Quiet
    /\ NoCalls
    /\ tz \in TZOffsets
    /\ now = Noon
    /\ entries = <<>>
    /\ options = DefaultOptions
    /\ \E server \in Servers, target \in {<<>>, <<MaxYear>>} :
          net = [pc |-> "fetching", server |-> server, target |-> target,
                 page |-> 1, requests |-> <<>>, pushed |-> <<>>, later |-> 0]

\* one turn of the loop: the request for net.page and what follows it.
\* The first MaxRequests turns are kept in full: the pages requested, which
\* of them were appended, and allHistory.  Every server of the model answers
\* all later requests alike, and the later turns are not told apart: of them
\* the state keeps only net.later, their number modulo 2, and whether one of
\* them has ended the loop.
RequestHistoryPage ==
    /\ net.pc = "fetching"
    /\ LET r == HistoryTurn(ServerResponse(net.server, net.page), net.target,
                            net.page, history)
           kept == Len(net.requests) < MaxRequests
       IN /\ history' = IF kept THEN r.allHistory ELSE history
          /\ net' = [net EXCEPT
                        !.requests = IF kept THEN Append(@, net.page) ELSE @,
                        !.pushed = IF kept THEN Append(@, r.pushed) ELSE @,
                        !.page = IF kept THEN r.page ELSE @,
                        !.later = IF kept THEN @ ELSE 1 - @,
                        !.pc = IF r.done THEN "returned" ELSE "fetching"]
    /\ UNCHANGED <<color, tz, now, fontFiles, embeddedFonts, targetYear,
                   processed, entries, options, stats, svg, firstSvg, cli>>

NextPages == RequestHistoryPage

SpecPages == InitPages /\ [][NextPages]_vars

\* the loop goes on as long as it has not ended
SpecPagesFair == SpecPages /\ WF_vars(NextPages)

\* the response to a request ends the loop
EndsLoop(page) ==
    LET response == ServerResponse(net.server, page)
    IN \/ ~response.ok
       \/ Len(response.data) = 0
       \/ /\ Truthy(net.target)
          /\ \A i \in 1..Len(response.data) :
                WatchedYear(response.data[i]) < net.target[1]
       \/ JsGe(page, response.pageCount)

\* the pages are requested in the order 1, 2, 3, ..., and the call returns at
\* the first request that ends the loop
PagesAreRequestedInOrder ==
    /\ net.requests = [i \in 1..Len(net.requests) |-> i]
    /\ \A i \in 1..(Len(net.requests) - 1) : ~EndsLoop(i)
    /\ net.pc = "returned" <=>
          (net.requests /= <<>> /\ EndsLoop(Len(net.requests)))

\* C26: fetchTraktHistory eventually returns for every server behaviour,
\* including when the x-pagination-page-count header is missing or not a
\* number.
FetchTraktHistoryEventuallyReturns == <>(net.pc = "returned")

\* the same for the servers that answer an empty page after their last page
FetchReturnsWhenTheHistoryEnds ==
    <>(net.server.rest /= "empty" \/ net.pc = "returned")

(***************************************************************************)
(* The early stop of fetchTraktHistory (specification SpecPages).          *)
(***************************************************************************)
RECURSIVE ConcatPages(_)
ConcatPages(pages) ==
    IF pages = <<>> THEN <<>> ELSE Head(pages) \o ConcatPages(Tail(pages))

\* the server holds its history newest first in non-empty pages, answers an
\* empty page after the last one, fails no request, and its page count
\* header is right or missing
InDescendingOrder(server) ==
    LET all == ConcatPages(server.pages)
    IN /\ server.rest = "empty"
       /\ server.failsAt = 0
       /\ \A k \in 1..Len(server.pages) : server.pages[k] /= <<>>
       /\ \A i \in 1..(Len(all) - 1) :
             all[i].watched_at[1] >= all[i + 1].watched_at[1]
       /\ server.pageCount \in {<<>>, <<Len(server.pages)>>}

\* the event is of targetYear or later (of any year without a targetYear)
IsWanted(item) ==
    net.target = <<>> \/ getFullYear(item.watched_at[1]) >= net.target[1]

\* the pages the call has appended, in the order of the requests
RECURSIVE PushedPages(_)
PushedPages(n) ==
    IF n = 0 THEN <<>>
    ELSE PushedPages(n - 1)
           \o (IF net.pushed[n]
               THEN ServerResponse(net.server, net.requests[n]).data
               ELSE <<>>)

YearArgLists ==
    {<<UserArg, FlagArg("y"), YearListArg(<<MaxYear, MaxYear>>)>>,
     <<UserArg, YearListArg(<<MaxYear, MaxYear - 1, MaxYear>>)>>,
     <<UserArg, FlagArg("years"), YearListArg(<<MaxYear - 1, MaxYear>>)>>,
     <<UserArg, YearArg(MaxYear), YearArg(MaxYear)>>,
     <<UserArg, FlagArg("y"), YearArg(MaxYear), YearArg(MaxYear),
       YearArg(MaxYear - 1)>>}

InitYearArgs ==
    /\ Quiet
    /\ NoCalls
    /\ tz \in TZOffsets
    /\ now = Noon
    /\ entries = <<>>
    /\ options = DefaultOptions
    /\ \E args \in YearArgLists,
          world \in {AllUp, AllDown, [AllUp EXCEPT !.failsAt = 2]} :
          StartRun(args, world)

SpecYearArgs == InitYearArgs /\ [][NextMain]_vars

\* the years of the run, each once
RequestedYears == {net.years[i] : i \in 1..Len(net.years)}

\* C28: for every years list accepted by the CLI, a list that repeats a year
\* included, each raw history event contributes at most one entry to
\* allEntries and each requested year is rendered as exactly one block, so
\* the item count of a year never counts an event twice.
NoEventIsCountedTwice ==
    net.pc = "done" =>
        /\ \A h \in 1..Len(history) :
              Cardinality({k \in 1..Len(entries) :
                  entries[k].date = history[h].watched_at[1]}) <= 1
        /\ Len(svg[1].blocks) = Cardinality(RequestedYears)
        /\ \A blk \in RenderedBlocks :
              blk.totalItems =
                  Cardinality({h \in 1..Len(history) :
                      WatchedYear(history[h]) = blk.year})

\* the same for the runs whose years list has no year twice
NoEventIsCountedTwiceForDistinctYears ==
    Len(net.years) = Cardinality(RequestedYears) => NoEventIsCountedTwice


(***************************************************************************)
(* SpecTitles: the two renderers of fetcher.js on the same year and on     *)
(* entries with different titles, in any order, two of them on one day.     *)
(***************************************************************************)
TitleProbes ==
    {DateUTC(MaxYear, 1, 15) + 12, DateUTC(MaxYear, 1, 15) + 15,
     DateUTC(MaxYear, 1, 16) + 12}

InitTitles ==
    /\ Idle
    /\ NoCalls
    /\ tz \in TZOffsets
    /\ now = Noon
    /\ entries = <<>>
    /\ \E ws \in {"sunday", "monday"} :
          options = [DefaultOptions EXCEPT !.year = <<MaxYear>>,
                                           !.years = <<<<MaxYear>>>>,
                                           !.weekStart = <<ws>>]

AddTitledEntry ==
    /\ svg = <<>>
    /\ Len(entries) < MaxEntries
    /\ \E p \in TitleProbes, title \in {<<"a">>, <<"b">>} :
          entries' = Append(entries, MovieEntry(p, title))
    /\ UNCHANGED <<net, color, tz, now, fontFiles, embeddedFonts, history,
                   targetYear, processed, options, stats, svg, firstSvg, cli>>

NextTitles == AddTitledEntry \/ CallGenerateSvg \/ CallGenerateMultiYearSvg

SpecTitles == InitTitles /\ [][NextTitles]_vars

\* what the claim lists of a year's pass, the tooltip lines apart
PassFacets(blk) ==
    [startDate |-> blk.startDate, totalWeeks |-> blk.totalWeeks,
     streak |-> blk.streak, daysActive |-> blk.daysActive,
     weekly |-> blk.weekly,
     cells |-> [c \in DOMAIN blk.cells |->
                  [count |-> blk.cells[c].count, level |-> blk.cells[c].level]]]

\* the tooltip item lines of every cell, in the order written
PassLines(blk) == [c \in DOMAIN blk.cells |-> blk.cells[c].lines]

\* the year block the other renderer computes from the same entries, year
\* and weekStart
OtherRendererBlock ==
    IF svg[1].kind = "single"
    THEN generateMultiYearSvg(entries, options).blocks[1]
    ELSE generateSvg(entries, options).blocks[1]

\* C29: for the same entries, weekStart and a single year Y,
\* generateMultiYearSvg with years = [Y] and generateSvg with year = Y
\* compute the same startDate, totalWeeks, per-cell counts, colour levels,
\* streak, days-active count and weekly distribution, and emit the same
\* tooltip item lines in the same order for every cell.
SingleAndMultiYearPassAgree ==
    Rendered =>
        /\ PassFacets(svg[1].blocks[1]) = PassFacets(OtherRendererBlock)
        /\ PassLines(svg[1].blocks[1]) = PassLines(OtherRendererBlock)

\* the same without the tooltip item lines
SingleAndMultiYearPassAgreeButForLines ==
    Rendered => PassFacets(svg[1].blocks[1]) = PassFacets(OtherRendererBlock)


(***************************************************************************)
(* SpecStreaks: the renderers on entries of the first week of MaxYear,     *)
(* with days that are active several times and runs of the same length.    *)
(***************************************************************************)
MaxStreakEntries == 4

\* instants on January 1, 2, 4 (twice), 5 and 7 of MaxYear
StreakProbes ==
    {DateUTC(MaxYear, 0, 1) + 12, DateUTC(MaxYear, 0, 2) + 12,
     DateUTC(MaxYear, 0, 4) + 12, DateUTC(MaxYear, 0, 4) + 21,
     DateUTC(MaxYear, 0, 5) + 12, DateUTC(MaxYear, 0, 7) + 12}

InitStreaks ==
    /\ Idle
    /\ NoCalls
    /\ tz \in TZOffsets
    /\ now = Noon
    /\ entries = <<>>
    /\ options = [DefaultOptions EXCEPT !.year = <<MaxYear>>,
                                        !.years = <<<<MaxYear>>>>]

AddStreakEntry ==
    /\ svg = <<>>
    /\ Len(entries) < MaxStreakEntries
    /\ \E p \in StreakProbes :
          \* the history arrives newest first
          /\ IF entries = <<>> THEN TRUE ELSE p <= entries[Len(entries)].date
          /\ entries' = Append(entries, MovieEntry(p, <<"a">>))
    /\ UNCHANGED <<net, color, tz, now, fontFiles, embeddedFonts, history,
                   targetYear, processed, options, stats, svg, firstSvg, cli>>

NextStreaks == AddStreakEntry \/ CallGenerateSvg \/ CallGenerateMultiYearSvg

SpecStreaks == InitStreaks /\ [][NextStreaks]_vars

\* the first day of the earliest run of LongestRun active days
EarliestLongestRunStart ==
    CHOOSE a \in ActiveDays :
        /\ IsRun(a, a + LongestRun - 1)
        /\ \A b \in ActiveDays : IsRun(b, b + LongestRun - 1) => a <= b

\* C30: for every entry list of a year, the statistics shown in one render
\* satisfy streak.length <= daysActive <= totalItems, streak.length >= 1
\* exactly when the list is non-empty, and when several runs share the
\* maximal length the reported startDate/endDate are those of the earliest
\* such run.
StatisticsAreConsistent ==
    Rendered =>
        \A blk \in RenderedBlocks :
            /\ blk.streak.length <= blk.daysActive
            /\ blk.daysActive <= blk.totalItems
            /\ blk.totalItems = Len(entries)
            /\ (blk.streak.length >= 1) <=> (entries /= <<>>)
            /\ entries /= <<>> =>
                  /\ blk.streak.startDate = Civil(EarliestLongestRunStart)
                  /\ blk.streak.endDate =
                        Civil(EarliestLongestRunStart + LongestRun - 1)

\* a year with four entries on two runs of two days each has been rendered:
\* the streak shown is the earlier run
StatisticsWitness ==
    /\ Rendered
    /\ Len(entries) = 4
    /\ LongestRun = 2
    /\ Cardinality({a \in ActiveDays : IsRun(a, a + 1)}) = 2
    /\ \A blk \in RenderedBlocks :
          /\ blk.streak.length = 2
          /\ blk.daysActive = 4
          /\ blk.streak.startDate = <<MaxYear, 1, 1>>

====
